---- MODULE Spec2Model ----
(***************************************************************************)
(* Model of the Habr UI autotest suite: the step classes (MainPageSteps,   *)
(* LoginPageSteps) and the page objects (MainPage, LoginPage) they drive.  *)
(* The browser engine (Playwright) and the reporter (Allure) are the       *)
(* environment: every engine call is one step whose outcome is chosen      *)
(* nondeterministically among the outcomes the engine can produce, and is  *)
(* recorded in `calls`; every allure.attach is recorded in `attached`.     *)
(* One step method runs at a time (a test is a single thread of control).  *)
(* The worker processes of a pytest-xdist run and the fixtures of          *)
(* conftest.py are followed by specifications of their own, SpecWorkers    *)
(* and SpecSession; the assertions of the four test functions over the     *)
(* values the step methods hand back are followed by SpecTests.            *)
(***************************************************************************)
EXTENDS Integers, Sequences, FiniteSets, TLC

VARIABLES
    op,        \* the step method being executed (or last executed)
    pc,        \* position inside that method
    status,    \* "idle" | "running" | "returned" | "raised"
    ret,       \* value returned by the method (a record, one shape per method)
    calls,     \* engine calls made so far by this method, in call order
               \* (in verify_footer_options: those on the current option)
    attached,  \* names of the evidence attached by this method, in order
    loc,       \* local variables of the method
    scroll,    \* scroll position of the page: "top" | "bottom"
    prev,      \* outcome of the call before this one, kept when a test
               \* repeats a verification (NoPrev otherwise)
    worker,    \* per pytest worker process: position in its session
    env_file,  \* reports/allure-results/environment.properties on disk
    written,   \* which worker has written which resource so far
    run        \* the test function being executed: the step it is at, its
               \* local variables and how it ended

vars == <<op, pc, status, ret, calls, attached, loc, scroll, prev,
          worker, env_file, written, run>>

\* What the step methods never touch: the state of the worker processes and
\* of the test function that calls them.
session == <<worker, env_file, written, run>>

\* Largest match count a locator.count() query is taken to return.
MaxCount == 1

\* ------------------------------------------------------------------------
\* Engine calls and their outcomes
\* ------------------------------------------------------------------------

\* One engine call: target q, method m, timeout t in ms (0 when the call
\* passes none), outcome r, and for count() the number of matches n.
Call(q, m, t, r, n) == [q |-> q, m |-> m, t |-> t, r |-> r, n |-> n]

\* wait_for / wait_for_selector / wait_for_load_state / goto / click /
\* screenshot either complete or raise (TimeoutError or another engine error).
WaitOutcomes == {"ok", "raise"}

\* is_visible / is_enabled return a boolean or raise (strict-mode violation,
\* closed page, detached frame).
BoolOutcomes == {"true", "false", "raise"}

NoRet == [kind |-> "none"]
BoolRet(b) == [kind |-> "bool", value |-> b]
NoLocals == [kind |-> "none"]

\* A locator handed back by a captcha accessor: the strategy that produced it
\* ("direct" = page.frame_locator, "content_frame" = iframe.content_frame())
\* and the selector it is bound to; NoLocator is Python's None.
Locator(strategy, selector) == [strategy |-> strategy, selector |-> selector]
NoLocator == Locator("none", "")

Log(q, m, t, r, n) == calls' = Append(calls, Call(q, m, t, r, n))
\* One allure.attach: the evidence name, and for the names built with an
\* f-string (missing_tab_<tab>) the element the name is built from.
Evidence(name, of) == [name |-> name, of |-> of]
Attach(name) == attached' = Append(attached, Evidence(name, ""))
AttachFor(name, of) == attached' = Append(attached, Evidence(name, of))
Goto(l) == pc' = l /\ status' = status /\ ret' = ret
Return(v) == pc' = "done" /\ status' = "returned" /\ ret' = v
Raise == pc' = "done" /\ status' = "raised" /\ ret' = ret

\* ------------------------------------------------------------------------
\* The step methods a test can call, with the label each one starts at
\* ------------------------------------------------------------------------

Entry ==
    [navigate_to_main_page |-> "goto",
     verify_all_content_tabs |-> "count",
     verify_header_elements |-> "is_visible",
     verify_footer_section |-> "scroll",
     verify_login_button |-> "count",
     open_menu |-> "click",
     close_menu |-> "click",
     click_login_button |-> "click",
     close_popup_banner |-> "banner_visible",
     verify_menu_panel_hidden |-> "hidden_check",
     verify_captcha_checkbox_exists |-> "container_visible",
     verify_captcha_title_exists |-> "frame_locator",
     verify_logo_link |-> "is_visible",
     verify_email_input_exists |-> "is_visible",
     verify_menu_panel_displayed |-> "panel_visible",
     verify_footer_options |-> "lookup",
     verify_footer_link |-> "lookup",
     verify_login_window_displayed |-> "is_visible",
     verify_login_form_fields |-> "is_visible",
     verify_login_form_buttons |-> "is_visible",
     verify_captcha_iframe_form |-> "is_visible",
     verify_social_icons_section |-> "count",
     verify_menu_button |-> "is_visible",
     verify_menu_options |-> "count",
     verify_social_icons |-> "count",
     verify_services_section |-> "header_visible",
     verify_registration_link |-> "text_visible",
     verify_social_login_options |-> "part_visible"]

Methods == DOMAIN Entry

InitLocals(o) ==
    CASE o = "navigate_to_main_page" -> [phase |-> 1]
      [] o = "verify_all_content_tabs" ->
            [i |-> 1, results |-> <<>>, is_visible |-> FALSE]
      [] o = "verify_header_elements" -> [i |-> 1, results |-> <<>>]
      [] o = "verify_footer_section" -> [is_visible |-> FALSE]
      [] o = "verify_login_button" ->
            [exists |-> FALSE, visible |-> FALSE, clickable |-> FALSE]
      [] o = "verify_menu_panel_hidden" -> [button_visible |-> FALSE]
      [] o = "verify_captcha_checkbox_exists" ->
            [i |-> 1, checkbox |-> NoLocator]
      [] o = "verify_captcha_title_exists" -> [title |-> NoLocator]
      [] o = "verify_logo_link" -> [dom |-> <<>>, resolved |-> 0]
      [] o = "verify_email_input_exists" -> [dom |-> <<>>, resolved |-> 0]
      [] o = "verify_menu_panel_displayed" -> [is_visible |-> FALSE]
      [] o = "verify_footer_options" -> [section_name |-> "", options |-> <<>>, i |-> 1, results |-> <<>>]
      [] o = "verify_footer_link" -> [link_name |-> "", visible |-> FALSE, clickable |-> FALSE]
      [] o = "verify_login_window_displayed" -> [i |-> 1, results |-> <<>>, visible |-> FALSE, second |-> FALSE]
      [] o = "verify_login_form_fields" -> [i |-> 1, results |-> <<>>, visible |-> FALSE, second |-> FALSE]
      [] o = "verify_login_form_buttons" -> [i |-> 1, results |-> <<>>, visible |-> FALSE, second |-> FALSE]
      [] o = "verify_captcha_iframe_form" -> [i |-> 1, results |-> <<>>, visible |-> FALSE, second |-> FALSE]
      [] o = "verify_social_icons_section" -> [i |-> 1, is_visible |-> FALSE]
      [] o = "verify_menu_button" -> [exists |-> FALSE, clickable |-> FALSE]
      [] o = "verify_menu_options" -> [i |-> 1, results |-> <<>>, is_visible |-> FALSE]
      [] o = "verify_social_icons" -> [i |-> 1, results |-> <<>>, is_visible |-> FALSE]
      [] o = "verify_services_section" -> [i |-> 1, results |-> <<>>, is_visible |-> FALSE, header_visible |-> FALSE]
      [] o = "verify_registration_link" -> [text_visible |-> FALSE, link_visible |-> FALSE, link_clickable |-> FALSE]
      [] o = "verify_social_login_options" -> [part |-> "social_buttons_block", i |-> 1, results |-> <<>>, is_visible |-> FALSE, is_clickable |-> FALSE]
      [] OTHER -> NoLocals

\* Number of pytest-xdist worker processes of a run.
MaxWorkers == 2
Workers == 1..MaxWorkers

\* Largest number of tests one worker runs in its session.
MaxTests == 4

\* A worker before pytest_configure: no test begun, nothing created yet.
\* n counts the tests begun; main and login are the pages the step objects
\* of the current test are bound to (0: not constructed); log lists what
\* the fixtures have done, in order.
NewWorker ==
    [pc |-> "configure", pos |-> 0, n |-> 0, main |-> 0, login |-> 0,
     log |-> <<>>]

\* The verifications whose repetition is followed: when a test calls one of
\* them twice in a row, `prev` keeps what the first call did.
Repeated ==
    {"verify_footer_section", "verify_menu_panel_displayed", "verify_logo_link"}
NoPrev == [status |-> "none"]

\* No test function has been entered yet.
NoRun == [test |-> "none", step |-> 0, locals |-> <<>>, outcome |-> "idle",
          assertion |-> 0]

Init ==
    /\ op = "none"
    /\ pc = "done"
    /\ status = "idle"
    /\ ret = NoRet
    /\ calls = <<>>
    /\ attached = <<>>
    /\ loc = NoLocals
    /\ scroll = "top"
    /\ prev = NoPrev
    /\ worker = [w \in Workers |-> NewWorker]
    /\ env_file = <<>>
    /\ written = {}
    /\ run = NoRun

\* A test calls a step method (or a public page-object method); the previous
\* call has returned or raised.
CallStep ==
    /\ status # "running"
    /\ \E o \in Methods :
        /\ op' = o
        /\ pc' = Entry[o]
        /\ loc' = InitLocals(o)
        /\ prev' = IF o = op /\ o \in Repeated
                      THEN [status |-> status, ret |-> ret, calls |-> calls,
                            attached |-> attached, scroll |-> scroll,
                            loc |-> loc]
                      ELSE NoPrev
    /\ status' = "running"
    /\ ret' = NoRet
    /\ calls' = <<>>
    /\ attached' = <<>>
    /\ UNCHANGED <<scroll, session>>

\* ------------------------------------------------------------------------
\* MainPage.navigate (pages/main_page.py) as called by navigate_to_main_page
\* ------------------------------------------------------------------------

HeaderTimeout == 30000
LoadTimeout == 30000
NetworkIdleTimeout == 15000

\* Control flow of navigate: the label reached from label `at` when the
\* engine call made there has outcome r, in phase `phase` (1: the goto of
\* URL, 2: the goto of /ru/articles/).  "raise" = the exception leaves
\* navigate; "screenshot" = navigate has returned to navigate_to_main_page.
\* goto and wait_for_selector stand outside any try; the 'load' wait is
\* inside a try whose handler waits for 'networkidle' inside a try whose
\* handler is `pass`.
NavigateNextHeaderSwallowed(at, r, phase) ==
    LET Proceed == IF phase = 1 THEN "url" ELSE "screenshot" IN
    CASE at = "goto" -> IF r = "ok" THEN "header" ELSE "raise"
      [] at = "header" -> "load"
      [] at = "load" -> IF r = "ok" THEN Proceed ELSE "networkidle"
      [] at = "networkidle" -> Proceed
      [] at = "url" -> IF r = "feed" THEN "goto" ELSE "screenshot"

NavigateNextIdleRaises(at, r, phase) ==
    LET Proceed == IF phase = 1 THEN "url" ELSE "screenshot" IN
    CASE at = "goto" -> IF r = "ok" THEN "header" ELSE "raise"
      [] at = "header" -> IF r = "ok" THEN "load" ELSE "raise"
      [] at = "load" -> IF r = "ok" THEN Proceed ELSE "networkidle"
      [] at = "networkidle" -> IF r = "ok" THEN Proceed ELSE "raise"
      [] at = "url" -> IF r = "feed" THEN "goto" ELSE "screenshot"

\* navigate reading the URL again after the goto of /ru/articles/.
NavigateNextUrlAgain(at, r, phase) ==
    CASE at = "goto" -> IF r = "ok" THEN "header" ELSE "raise"
      [] at = "header" -> IF r = "ok" THEN "load" ELSE "raise"
      [] at = "load" -> IF r = "ok" THEN "url" ELSE "networkidle"
      [] at = "networkidle" -> "url"
      [] at = "url" -> IF r = "feed" THEN "goto" ELSE "screenshot"

NavigateNext(at, r, phase) ==
    LET Proceed == IF phase = 1 THEN "url" ELSE "screenshot" IN
    CASE at = "goto" -> IF r = "ok" THEN "header" ELSE "raise"
      [] at = "header" -> IF r = "ok" THEN "load" ELSE "raise"
      [] at = "load" -> IF r = "ok" THEN Proceed ELSE "networkidle"
      [] at = "networkidle" -> Proceed
      [] at = "url" -> IF r = "feed" THEN "goto" ELSE "screenshot"

navigate ==
    /\ op = "navigate_to_main_page"
    /\ status = "running"
    /\ UNCHANGED <<prev, session>>
    /\ UNCHANGED <<op, attached>>
    /\ LET Step(r) ==
               LET nx == NavigateNext(pc, r, loc.phase) IN
               /\ IF nx = "raise" THEN Raise ELSE Goto(nx)
               /\ loc' = IF pc = "url" /\ nx = "goto"
                           THEN [loc EXCEPT !.phase = 2] ELSE loc
               \* a page that has been loaded is shown from its top
               /\ scroll' = IF pc = "goto" /\ r = "ok" THEN "top" ELSE scroll
       IN
       \/ /\ pc = "goto"
          /\ \E r \in WaitOutcomes :
                Log("page", "goto", 0, r, loc.phase) /\ Step(r)
       \/ /\ pc = "header"
          /\ \E r \in WaitOutcomes :
                /\ Log("div.tm-header__container", "wait_for_selector",
                       HeaderTimeout, r, loc.phase)
                /\ Step(r)
       \/ /\ pc = "load"
          /\ \E r \in WaitOutcomes :
                /\ Log("load", "wait_for_load_state", LoadTimeout, r, loc.phase)
                /\ Step(r)
       \/ /\ pc = "networkidle"
          /\ \E r \in WaitOutcomes :
                /\ Log("networkidle", "wait_for_load_state", NetworkIdleTimeout,
                       r, loc.phase)
                /\ Step(r)
       \/ /\ pc = "url"
          \* "/ru/feed" in self.page.url
          /\ \E r \in {"feed", "other"} :
                Log("page", "url", 0, r, loc.phase) /\ Step(r)

\* MainPageSteps.navigate_to_main_page: after navigate() returned.
navigate_to_main_page ==
    /\ op = "navigate_to_main_page"
    /\ status = "running"
    /\ UNCHANGED <<scroll, prev, session>>
    /\ pc = "screenshot"
    /\ \E r \in WaitOutcomes :
          /\ Log("page", "screenshot", 0, r, 0)
          /\ IF r = "ok"
               THEN Attach("main_page_loaded") /\ Return(NoRet)
               ELSE UNCHANGED attached /\ Raise
    /\ UNCHANGED <<op, loc>>

\* ------------------------------------------------------------------------
\* MainPageSteps.verify_all_content_tabs (steps/main_page_steps.py)
\* ------------------------------------------------------------------------

\* The keys of `tabs`, in insertion order, named by the locator property each
\* key maps to (articles_tab is the key "Stat'i", posts_tab "Posty", ...).
ContentTabs ==
    <<"articles_tab", "posts_tab", "news_tab", "hubs_tab", "authors_tab",
      "companies_tab">>

VisibleTimeout == 5000

\* results[k] = v, as a Python dict assignment.
DictSet(d, k, v) == [x \in DOMAIN d \cup {k} |-> IF x = k THEN v ELSE d[x]]

verify_all_content_tabs ==
    /\ op = "verify_all_content_tabs"
    /\ status = "running"
    /\ UNCHANGED <<scroll, prev, session>>
    /\ UNCHANGED op
    /\ LET tab == ContentTabs[loc.i]
           \* results[tab_name] = is_visible, then the `if not is_visible`
           Record(v) ==
               /\ loc' = [loc EXCEPT !.is_visible = v,
                                     !.results = DictSet(@, tab, v),
                                     !.i = IF v THEN @ + 1 ELSE @]
               /\ IF ~v THEN Goto("attach")
                  ELSE IF loc.i < Len(ContentTabs) THEN Goto("count")
                  ELSE Return([kind |-> "dict", value |-> DictSet(loc.results, tab, v)])
       IN
       \/ /\ pc = "count"
          /\ UNCHANGED attached
          /\ \/ /\ Log(tab, "count", 0, "raise", 0)
                /\ Record(FALSE)
             \/ \E n \in 0..MaxCount :
                  /\ Log(tab, "count", 0, "ok", n)
                  /\ IF n > 0
                       THEN Goto("is_visible") /\ UNCHANGED loc
                       ELSE Record(FALSE)
       \/ /\ pc = "is_visible"
          /\ UNCHANGED attached
          /\ \E r \in BoolOutcomes :
                /\ Log(tab, "is_visible", VisibleTimeout, r, 0)
                /\ Record(r = "true")
       \/ /\ pc = "attach"
          \* the f-string of the attachment calls tab_locator.count() again,
          \* outside the try block
          \* (the number it returns only goes into the message text)
          /\ \/ /\ Log(tab, "count", 0, "raise", 0)
                /\ UNCHANGED <<attached, loc>>
                /\ Raise
             \/   /\ Log(tab, "count", 0, "ok", 0)
                  /\ AttachFor("missing_tab", tab)
                  /\ loc' = [loc EXCEPT !.i = @ + 1]
                  /\ IF loc.i < Len(ContentTabs) THEN Goto("count")
                     ELSE Return([kind |-> "dict", value |-> loc.results])

\* ------------------------------------------------------------------------
\* MainPageSteps.verify_header_elements
\* ------------------------------------------------------------------------

HeaderElements ==
    <<"all_streams_link", "search_link", "write_publication_link",
      "settings_button", "login_button">>

verify_header_elements ==
    /\ op = "verify_header_elements"
    /\ status = "running"
    /\ UNCHANGED <<scroll, prev, session>>
    /\ pc = "is_visible"
    /\ UNCHANGED op
    /\ LET element == HeaderElements[loc.i] IN
       \E r \in BoolOutcomes :
          /\ Log(element, "is_visible", 0, r, 0)
          /\ IF r = "raise"
               THEN Raise /\ UNCHANGED <<attached, loc>>
               ELSE /\ loc' = [loc EXCEPT !.i = @ + 1,
                                          !.results = DictSet(@, element, r = "true")]
                    /\ IF r = "false"
                         THEN AttachFor("missing_element", element)
                         ELSE UNCHANGED attached
                    /\ IF loc.i < Len(HeaderElements)
                         THEN Goto("is_visible")
                         ELSE Return([kind |-> "dict",
                                      value |-> DictSet(loc.results, element,
                                                        r = "true")])

\* ------------------------------------------------------------------------
\* MainPageSteps.verify_footer_section
\* ------------------------------------------------------------------------

FooterTimeout == 5000

\* window.scrollTo(0, document.body.scrollHeight): where the page stands
\* after the script ran, from where it stood before.
ScrollTo(from) == "bottom"

verify_footer_section ==
    /\ op = "verify_footer_section"
    /\ status = "running"
    /\ UNCHANGED <<prev, session>>
    /\ UNCHANGED op
    /\ \/ /\ pc = "scroll"
          \* window.scrollTo(0, document.body.scrollHeight)
          /\ \E r \in WaitOutcomes :
                /\ Log("page", "evaluate", 0, r, 0)
                /\ IF r = "ok"
                     THEN Goto("wait_for") /\ scroll' = ScrollTo(scroll)
                     ELSE Raise /\ scroll' = scroll
          /\ UNCHANGED <<attached, loc>>
       \/ /\ pc = "wait_for"
          /\ \E r \in WaitOutcomes :
                /\ Log("footer_section", "wait_for_visible", FooterTimeout, r, 0)
                /\ IF r = "ok" THEN Goto("is_visible") ELSE Raise
          /\ UNCHANGED <<attached, loc, scroll>>
       \/ /\ pc = "is_visible"
          \* MainPage.verify_footer_section_exists
          /\ \E r \in BoolOutcomes :
                /\ Log("footer_section", "is_visible", 0, r, 0)
                /\ CASE r = "raise" -> Raise /\ UNCHANGED loc
                     [] r = "true" -> Goto("screenshot")
                                      /\ loc' = [loc EXCEPT !.is_visible = TRUE]
                     [] r = "false" -> Return(BoolRet(FALSE)) /\ UNCHANGED loc
          /\ UNCHANGED <<attached, scroll>>
       \/ /\ pc = "screenshot"
          /\ \E r \in WaitOutcomes :
                /\ Log("footer_section", "screenshot", 0, r, 0)
                /\ IF r = "ok"
                     THEN Attach("footer_section") /\ Return(BoolRet(loc.is_visible))
                     ELSE UNCHANGED attached /\ Raise
          /\ UNCHANGED <<loc, scroll>>

\* ------------------------------------------------------------------------
\* LoginPageSteps.verify_login_button (steps/login_page_steps.py)
\* ------------------------------------------------------------------------

LoginButtonRet(l) ==
    [kind |-> "login_button", exists |-> l.exists, visible |-> l.visible,
     clickable |-> l.clickable]

AllFalse == [exists |-> FALSE, visible |-> FALSE, clickable |-> FALSE]

verify_login_button ==
    /\ op = "verify_login_button"
    /\ status = "running"
    /\ UNCHANGED <<scroll, prev, session>>
    /\ UNCHANGED op
    /\ \/ /\ pc = "count"
          /\ UNCHANGED attached
          /\ \/ /\ Log("login_button", "count", 0, "raise", 0)
                /\ loc' = AllFalse
                /\ Return(LoginButtonRet(AllFalse))
             \/ \E n \in 0..MaxCount :
                  /\ Log("login_button", "count", 0, "ok", n)
                  /\ IF n > 0
                       THEN /\ loc' = [loc EXCEPT !.exists = TRUE]
                            /\ Goto("is_visible")
                       ELSE /\ loc' = AllFalse
                            /\ Return(LoginButtonRet(AllFalse))
       \/ /\ pc = "is_visible"
          /\ UNCHANGED attached
          /\ \E r \in BoolOutcomes :
                /\ Log("login_button", "is_visible", VisibleTimeout, r, 0)
                /\ CASE r = "raise" ->
                            loc' = AllFalse /\ Return(LoginButtonRet(AllFalse))
                     [] r = "false" ->
                            /\ loc' = [loc EXCEPT !.visible = FALSE,
                                                  !.clickable = FALSE]
                            /\ Return(LoginButtonRet(loc'))
                     [] r = "true" ->
                            /\ loc' = [loc EXCEPT !.visible = TRUE]
                            /\ Goto("is_enabled")
       \/ /\ pc = "is_enabled"
          /\ UNCHANGED attached
          /\ \E r \in BoolOutcomes :
                /\ Log("login_button", "is_enabled", 0, r, 0)
                /\ IF r = "raise"
                     THEN loc' = AllFalse /\ Return(LoginButtonRet(AllFalse))
                     ELSE /\ loc' = [loc EXCEPT !.clickable = (r = "true")]
                          /\ Goto("screenshot")
       \/ /\ pc = "screenshot"
          \* reached only with visible = True; the screenshot is outside the try
          /\ \E r \in WaitOutcomes :
                /\ Log("login_button", "screenshot", 0, r, 0)
                /\ IF r = "ok"
                     THEN Attach("login_button") /\ Return(LoginButtonRet(loc))
                     ELSE UNCHANGED attached /\ Raise
          /\ UNCHANGED loc

\* ------------------------------------------------------------------------
\* MainPageSteps.open_menu
\* ------------------------------------------------------------------------

MenuWaitTimeout == 5000

\* allure.attach(self.page.screenshot(), name=...) followed by the return
\* of a method that returns None.
ScreenshotAndReturn(name) ==
    \E r \in WaitOutcomes :
        /\ Log("page", "screenshot", 0, r, 0)
        /\ IF r = "ok"
             THEN Attach(name) /\ Return(NoRet)
             ELSE UNCHANGED attached /\ Raise

\* Control flow of open_menu: the label reached from `at` on outcome r.
\* The three outer waits are each inside a try whose handler makes the next
\* wait; the innermost wait (services_section_header) has no try around it.
OpenMenuNextSwapped(at, r) ==
    CASE at = "click" -> IF r = "ok" THEN "menu_panel" ELSE "raise"
      [] at = "menu_panel" -> IF r = "ok" THEN "screenshot" ELSE "menu_backend"
      [] at = "menu_backend" -> IF r = "ok" THEN "screenshot" ELSE "menu_whats_new"
      [] at = "menu_whats_new" ->
            IF r = "ok" THEN "screenshot" ELSE "services_section_header"
      [] at = "services_section_header" ->
            IF r = "ok" THEN "screenshot" ELSE "raise"

\* open_menu with the last wait inside a try of its own whose handler is
\* `pass`.
OpenMenuNextSwallowed(at, r) ==
    CASE at = "click" -> IF r = "ok" THEN "menu_panel" ELSE "raise"
      [] at = "menu_panel" -> IF r = "ok" THEN "screenshot" ELSE "menu_whats_new"
      [] at = "menu_whats_new" -> IF r = "ok" THEN "screenshot" ELSE "menu_backend"
      [] at = "menu_backend" ->
            IF r = "ok" THEN "screenshot" ELSE "services_section_header"
      [] at = "services_section_header" -> "screenshot"

OpenMenuNext(at, r) ==
    CASE at = "click" -> IF r = "ok" THEN "menu_panel" ELSE "raise"
      [] at = "menu_panel" -> IF r = "ok" THEN "screenshot" ELSE "menu_whats_new"
      [] at = "menu_whats_new" -> IF r = "ok" THEN "screenshot" ELSE "menu_backend"
      [] at = "menu_backend" ->
            IF r = "ok" THEN "screenshot" ELSE "services_section_header"
      [] at = "services_section_header" ->
            IF r = "ok" THEN "screenshot" ELSE "raise"

open_menu ==
    /\ op = "open_menu"
    /\ status = "running"
    /\ UNCHANGED <<scroll, prev, session>>
    /\ UNCHANGED <<op, loc>>
    /\ LET Step(r) ==
               LET nx == OpenMenuNext(pc, r) IN
               IF nx = "raise" THEN Raise ELSE Goto(nx)
       IN
       \/ /\ pc = "click"
          /\ \E r \in WaitOutcomes :
                Log("menu_button", "click", 0, r, 0) /\ Step(r)
          /\ UNCHANGED attached
       \/ /\ pc \in {"menu_panel", "menu_whats_new", "menu_backend",
                     "services_section_header"}
          /\ \E r \in WaitOutcomes :
                Log(pc, "wait_for_visible", MenuWaitTimeout, r, 0) /\ Step(r)
          /\ UNCHANGED attached
       \/ /\ pc = "screenshot"
          /\ ScreenshotAndReturn("menu_opened")

\* ------------------------------------------------------------------------
\* MainPageSteps.close_menu
\* ------------------------------------------------------------------------

CloseHiddenTimeout == 5000
CloseVisibleProbeTimeout == 2000
CloseHiddenRetryTimeout == 3000
CloseButtonTimeout == 2000

close_menu ==
    /\ op = "close_menu"
    /\ status = "running"
    /\ UNCHANGED <<scroll, prev, session>>
    /\ UNCHANGED <<op, loc>>
    /\ \/ /\ pc = "click"
          /\ \E r \in WaitOutcomes :
                /\ Log("menu_button", "click", 0, r, 0)
                /\ IF r = "ok" THEN Goto("wait_hidden") ELSE Raise
          /\ UNCHANGED attached
       \/ /\ pc = "wait_hidden"
          /\ \E r \in WaitOutcomes :
                /\ Log("menu_panel", "wait_for_hidden", CloseHiddenTimeout, r, 0)
                /\ IF r = "ok" THEN Goto("screenshot") ELSE Goto("is_visible")
          /\ UNCHANGED attached
       \/ /\ pc = "is_visible"
          /\ \E r \in BoolOutcomes :
                /\ Log("menu_panel", "is_visible", CloseVisibleProbeTimeout, r, 0)
                /\ CASE r = "false" -> Goto("screenshot")
                     [] r = "true" -> Goto("wait_hidden_again")
                     [] r = "raise" -> Goto("menu_button")
          /\ UNCHANGED attached
       \/ /\ pc = "wait_hidden_again"
          /\ \E r \in WaitOutcomes :
                /\ Log("menu_panel", "wait_for_hidden", CloseHiddenRetryTimeout,
                       r, 0)
                /\ IF r = "ok" THEN Goto("screenshot") ELSE Goto("menu_button")
          /\ UNCHANGED attached
       \/ /\ pc = "menu_button"
          /\ \E r \in WaitOutcomes :
                Log("menu_button", "wait_for_visible", CloseButtonTimeout, r, 0)
          /\ Goto("screenshot")
          /\ UNCHANGED attached
       \/ /\ pc = "screenshot"
          /\ ScreenshotAndReturn("menu_closed")

\* ------------------------------------------------------------------------
\* LoginPageSteps.click_login_button
\* ------------------------------------------------------------------------

LoginWaitTimeout == 10000

\* Control flow of click_login_button: every wait is inside a try; the
\* handler of the last one is `pass`.
\* click_login_button written as a retry loop: when the last wait times out
\* the chain is started again.
ClickLoginNextRetry(at, r) ==
    CASE at = "click" -> IF r = "ok" THEN "login_modal" ELSE "raise"
      [] at = "login_modal" -> IF r = "ok" THEN "screenshot" ELSE "email_input"
      [] at = "email_input" -> IF r = "ok" THEN "screenshot" ELSE "password_input"
      [] at = "password_input" -> IF r = "ok" THEN "screenshot" ELSE "login_modal"

ClickLoginNext(at, r) ==
    CASE at = "click" -> IF r = "ok" THEN "login_modal" ELSE "raise"
      [] at = "login_modal" -> IF r = "ok" THEN "screenshot" ELSE "email_input"
      [] at = "email_input" -> IF r = "ok" THEN "screenshot" ELSE "password_input"
      [] at = "password_input" -> "screenshot"

click_login_button ==
    /\ op = "click_login_button"
    /\ status = "running"
    /\ UNCHANGED <<scroll, prev, session>>
    /\ UNCHANGED <<op, loc>>
    /\ LET Step(r) ==
               LET nx == ClickLoginNext(pc, r) IN
               IF nx = "raise" THEN Raise ELSE Goto(nx)
       IN
       \/ /\ pc = "click"
          /\ \E r \in WaitOutcomes :
                Log("login_button", "click", 0, r, 0) /\ Step(r)
          /\ UNCHANGED attached
       \/ /\ pc \in {"login_modal", "email_input", "password_input"}
          /\ \E r \in WaitOutcomes :
                Log(pc, "wait_for_visible", LoginWaitTimeout, r, 0) /\ Step(r)
          /\ UNCHANGED attached
       \/ /\ pc = "screenshot"
          /\ ScreenshotAndReturn("login_modal_opened")

\* ------------------------------------------------------------------------
\* MainPageSteps.close_popup_banner
\* ------------------------------------------------------------------------

BannerVisibleTimeout == 3000
CloseButtonVisibleTimeout == 2000
BannerHiddenTimeout == 3000
BannerRecheckTimeout == 1000

close_popup_banner ==
    /\ op = "close_popup_banner"
    /\ status = "running"
    /\ UNCHANGED <<scroll, prev, session>>
    /\ UNCHANGED <<op, loc>>
    /\ LET \* the outer `except Exception`
           NotPresent == Attach("banner_not_present") /\ Return(NoRet)
           \* the attach that ends the `if banner.is_visible(...)` block
           Closed == Attach("banner_closed") /\ Return(NoRet)
       IN
       \/ /\ pc = "banner_visible"
          /\ \E r \in BoolOutcomes :
                /\ Log("div.fixed-banner-wrapper", "is_visible",
                       BannerVisibleTimeout, r, 0)
                /\ CASE r = "true" -> Goto("close_visible") /\ UNCHANGED attached
                     [] r = "false" -> Return(NoRet) /\ UNCHANGED attached
                     [] r = "raise" -> NotPresent
       \/ /\ pc = "close_visible"
          /\ \E r \in BoolOutcomes :
                /\ Log("button.close-button", "is_visible",
                       CloseButtonVisibleTimeout, r, 0)
                /\ CASE r = "true" -> Goto("click") /\ UNCHANGED attached
                     [] r = "false" -> Closed
                     [] r = "raise" -> NotPresent
       \/ /\ pc = "click"
          /\ \E r \in WaitOutcomes :
                /\ Log("button.close-button", "click", 0, r, 0)
                /\ IF r = "ok"
                     THEN Goto("wait_hidden") /\ UNCHANGED attached
                     ELSE NotPresent
       \/ /\ pc = "wait_hidden"
          /\ \E r \in WaitOutcomes :
                /\ Log("div.fixed-banner-wrapper", "wait_for_hidden",
                       BannerHiddenTimeout, r, 0)
                /\ IF r = "ok"
                     THEN Closed
                     ELSE Goto("recheck") /\ UNCHANGED attached
       \/ /\ pc = "recheck"
          /\ \E r \in BoolOutcomes :
                /\ Log("div.fixed-banner-wrapper", "is_visible",
                       BannerRecheckTimeout, r, 0)
                /\ IF r = "raise" THEN NotPresent ELSE Closed

\* ------------------------------------------------------------------------
\* MainPageSteps.verify_menu_panel_hidden, with the page-object method
\* MainPage.verify_menu_panel_hidden it starts with
\* ------------------------------------------------------------------------

PanelProbeTimeout == 2000
PanelHiddenTimeout == 3000
ButtonProbeTimeout == 2000

verify_menu_panel_hidden ==
    /\ op = "verify_menu_panel_hidden"
    /\ status = "running"
    /\ UNCHANGED <<scroll, prev, session>>
    /\ UNCHANGED <<op, attached>>
    /\ \/ /\ pc = "hidden_check"
          \* MainPage.verify_menu_panel_hidden: not is_visible, True on except
          /\ \E r \in BoolOutcomes :
                /\ Log("menu_panel", "is_visible", PanelProbeTimeout, r, 0)
                /\ IF r = "true" THEN Goto("wait_hidden")
                   ELSE Return(BoolRet(TRUE))
          /\ UNCHANGED loc
       \/ /\ pc = "wait_hidden"
          /\ \E r \in WaitOutcomes :
                /\ Log("menu_panel", "wait_for_hidden", PanelHiddenTimeout, r, 0)
                /\ IF r = "ok" THEN Return(BoolRet(TRUE)) ELSE Goto("is_visible")
          /\ UNCHANGED loc
       \/ /\ pc = "is_visible"
          /\ \E r \in BoolOutcomes :
                /\ Log("menu_panel", "is_visible", PanelProbeTimeout, r, 0)
                /\ CASE r = "true" -> Return(BoolRet(FALSE))
                     [] r = "false" -> Return(BoolRet(TRUE))
                     [] r = "raise" -> Goto("button_visible")
          /\ UNCHANGED loc
       \/ /\ pc = "button_visible"
          /\ \E r \in BoolOutcomes :
                /\ Log("menu_button", "is_visible", ButtonProbeTimeout, r, 0)
                /\ IF r = "raise"
                     THEN Return(BoolRet(TRUE)) /\ UNCHANGED loc
                     ELSE /\ Goto("button_enabled")
                          /\ loc' = [loc EXCEPT !.button_visible = (r = "true")]
       \/ /\ pc = "button_enabled"
          /\ \E r \in BoolOutcomes :
                /\ Log("menu_button", "is_enabled", 0, r, 0)
                /\ IF r = "raise"
                     THEN Return(BoolRet(TRUE))
                     ELSE Return(BoolRet(loc.button_visible /\ r = "true"))
          /\ UNCHANGED loc

\* ------------------------------------------------------------------------
\* LoginPage captcha accessors (pages/login_page.py)
\* ------------------------------------------------------------------------

CaptchaContainerTimeout == 5000
IframeVisibleTimeout == 5000
FrameLoadTimeout == 10000
CaptchaVisibleTimeout == 15000

\* `selectors` of the frame_locator loop in get_captcha_checkbox
DirectSelectors ==
    <<"div.CheckboxCaptcha-Checkbox", "div[class*=CheckboxCaptcha]",
      "div[class*=checkbox]", "span[role=checkbox]", "#checkbox-captcha",
      ".checkbox-captcha">>

\* `selectors` of the content_frame loop in get_captcha_checkbox
ContentFrameSelectors ==
    <<"div.CheckboxCaptcha-Checkbox", "div[class*=CheckboxCaptcha]",
      "div[class*=checkbox]", "span[role=checkbox]">>

HasMatchOrEmpty(n) == n >= 0

\* `if locator.count() > 0: return locator`
HasMatch(n) == n > 0

VisibleUnlessFalse(r) == r # "false"

\* `return checkbox.is_visible(timeout=15000)` inside try/except: return False
VisibleOrFalse(r) == r = "true"

\* The content_frame approach up to the point where a frame is at hand:
\* iframe.count() > 0, iframe.wait_for(visible), iframe.content_frame(),
\* frame.wait_for_load_state().  Every failure ends in `return None`
\* (GiveUp); a loaded frame continues with Loaded.
content_frame_approach(Loaded, GiveUp) ==
    \/ /\ pc = "iframe_count"
       /\ \/ Log("captcha_iframe", "count", 0, "raise", 0) /\ GiveUp
          \/ \E n \in 0..MaxCount :
                /\ Log("captcha_iframe", "count", 0, "ok", n)
                /\ IF n > 0 THEN Goto("iframe_wait") /\ UNCHANGED loc
                   ELSE GiveUp
    \/ /\ pc = "iframe_wait"
       /\ \E r \in WaitOutcomes :
             /\ Log("captcha_iframe", "wait_for_visible", IframeVisibleTimeout,
                    r, 0)
             /\ IF r = "ok" THEN Goto("content_frame") /\ UNCHANGED loc
                ELSE GiveUp
    \/ /\ pc = "content_frame"
       \* content_frame() hands back a frame, nothing, or raises
       /\ \E r \in {"frame", "none", "raise"} :
             /\ Log("captcha_iframe", "content_frame", 0, r, 0)
             /\ IF r = "frame" THEN Goto("load_state") /\ UNCHANGED loc
                ELSE GiveUp
    \/ /\ pc = "load_state"
       /\ \E r \in WaitOutcomes :
             /\ Log("frame", "wait_for_load_state", FrameLoadTimeout, r, 0)
             /\ IF r = "ok" THEN Loaded ELSE GiveUp

\* LoginPage.verify_captcha_checkbox_exists, with the call of
\* get_captcha_checkbox it starts with; loc.checkbox is what
\* get_captcha_checkbox returned.
get_captcha_checkbox ==
    /\ op = "verify_captcha_checkbox_exists"
    /\ status = "running"
    /\ UNCHANGED <<scroll, prev, session>>
    /\ UNCHANGED <<op, attached>>
    /\ LET \* get_captcha_checkbox returns None; `if checkbox:` fails
           ReturnNone ==
               /\ loc' = [loc EXCEPT !.checkbox = NoLocator]
               /\ Return(BoolRet(FALSE))
           ReturnLocator(l) ==
               /\ loc' = [loc EXCEPT !.checkbox = l]
               /\ Goto("checkbox_visible")
           Fallback == Goto("iframe_count") /\ loc' = [loc EXCEPT !.i = 1]
       IN
       \/ /\ pc = "container_visible"
          /\ \E r \in BoolOutcomes :
                /\ Log("captcha_container", "is_visible",
                       CaptchaContainerTimeout, r, 0)
                /\ CASE r = "false" -> ReturnNone
                     [] r = "true" -> Goto("frame_locator") /\ UNCHANGED loc
                     [] r = "raise" -> Fallback
       \/ /\ pc = "frame_locator"
          /\ \E r \in WaitOutcomes :
                /\ Log("captcha_frame_locator", "frame_locator", 0, r, 0)
                /\ IF r = "ok" THEN Goto("direct_count") /\ UNCHANGED loc
                   ELSE Fallback
       \/ /\ pc = "direct_count"
          /\ LET selector == DirectSelectors[loc.i]
                 Continue ==
                     IF loc.i < Len(DirectSelectors)
                       THEN Goto("direct_count")
                            /\ loc' = [loc EXCEPT !.i = @ + 1]
                       ELSE Fallback
             IN \/ Log(selector, "frame_locator.count", 0, "raise", 0)
                   /\ Continue
                \/ \E n \in 0..MaxCount :
                      /\ Log(selector, "frame_locator.count", 0, "ok", n)
                      /\ IF HasMatch(n)
                           THEN ReturnLocator(Locator("direct", selector))
                           ELSE Continue
       \/ content_frame_approach(
             Goto("frame_count") /\ loc' = [loc EXCEPT !.i = 1], ReturnNone)
       \/ /\ pc = "frame_count"
          /\ LET selector == ContentFrameSelectors[loc.i]
                 Continue ==
                     IF loc.i < Len(ContentFrameSelectors)
                       THEN Goto("frame_count")
                            /\ loc' = [loc EXCEPT !.i = @ + 1]
                       ELSE ReturnNone
             IN \/ Log(selector, "content_frame.count", 0, "raise", 0)
                   /\ Continue
                \/ \E n \in 0..MaxCount :
                      /\ Log(selector, "content_frame.count", 0, "ok", n)
                      /\ IF HasMatch(n)
                           THEN ReturnLocator(Locator("content_frame", selector))
                           ELSE Continue

verify_captcha_checkbox_exists ==
    /\ op = "verify_captcha_checkbox_exists"
    /\ status = "running"
    /\ UNCHANGED <<scroll, prev, session>>
    /\ pc = "checkbox_visible"
    /\ \E r \in BoolOutcomes :
          /\ Log(loc.checkbox.selector, "is_visible", CaptchaVisibleTimeout, r, 0)
          /\ Return(BoolRet(VisibleOrFalse(r)))
    /\ UNCHANGED <<op, attached, loc>>

\* LoginPage.verify_captcha_title_exists, with the call of get_captcha_title
\* it starts with; loc.title is what get_captcha_title returned.
get_captcha_title ==
    /\ op = "verify_captcha_title_exists"
    /\ status = "running"
    /\ UNCHANGED <<scroll, prev, session>>
    /\ UNCHANGED <<op, attached>>
    /\ LET ReturnNone ==
               /\ loc' = [loc EXCEPT !.title = NoLocator]
               /\ Return(BoolRet(FALSE))
           ReturnLocator(l) ==
               /\ loc' = [loc EXCEPT !.title = l]
               /\ Goto("title_visible")
       IN
       \/ /\ pc = "frame_locator"
          /\ \E r \in WaitOutcomes :
                /\ Log("captcha_frame_locator", "frame_locator", 0, r, 0)
                /\ IF r = "ok"
                     THEN ReturnLocator(Locator("direct", "span#checkbox-label"))
                     ELSE Goto("iframe_count") /\ UNCHANGED loc
       \/ content_frame_approach(
             ReturnLocator(Locator("content_frame", "span#checkbox-label")),
             ReturnNone)

verify_captcha_title_exists ==
    /\ op = "verify_captcha_title_exists"
    /\ status = "running"
    /\ UNCHANGED <<scroll, prev, session>>
    /\ pc = "title_visible"
    /\ \E r \in BoolOutcomes :
          /\ Log(loc.title.selector, "is_visible", CaptchaVisibleTimeout, r, 0)
          /\ Return(BoolRet(VisibleOrFalse(r)))
    /\ UNCHANGED <<op, attached, loc>>

\* ------------------------------------------------------------------------
\* Locators built as A.or_(B)[.or_(C)].first (pages/main_page.py,
\* pages/login_page.py)
\* ------------------------------------------------------------------------

\* Largest number of nodes of the page that the strategies of one chain are
\* taken to match.
MaxNodes == 2

\* MainPage.logo_link and LoginPage.email_input: the strategies of the chain,
\* in the order the property writes them.
logo_link == <<"a[href*=/ru/feed]", "a[href=/]">>
email_input == <<"label=Email", "input[type=email]", "input[name*=email], input[id*=email]">>

Range(sq) == {sq[i] : i \in DOMAIN sq}

\* The part of a page a chain looks at: its nodes in document order, each
\* node given by the set of strategies of the chain that match it.
Pages(chain) ==
    UNION {[1..n -> SUBSET Range(chain)] : n \in 0..MaxNodes}

\* A locator property that keeps the element it resolved for the previous
\* call instead of building a fresh locator.
OrFirstKept(dom, chain) ==
    LET Matches == {i \in DOMAIN dom : dom[i] \cap Range(chain) # {}} IN
    IF prev.status = "returned" /\ op = "verify_logo_link"
      THEN prev.loc.resolved
    ELSE IF Matches = {} THEN 0
    ELSE CHOOSE i \in Matches : \A j \in Matches : i <= j

\* A.or_(B) is the locator matching every node that matches A or B or both,
\* and .first narrows a locator to its first match in document order; 0
\* when nothing matches.
OrFirst(dom, chain) ==
    LET Matches == {i \in DOMAIN dom : dom[i] \cap Range(chain) # {}} IN
    IF Matches = {} THEN 0
    ELSE CHOOSE i \in Matches : \A j \in Matches : i <= j

\* The answers is_visible() can give for the element a locator resolved to:
\* False when it resolved to nothing.
VisibleAnswers(resolved) ==
    IF resolved = 0 THEN {"false", "raise"} ELSE BoolOutcomes

\* MainPageSteps.verify_logo_link -> MainPage.verify_logo_exists:
\* logo_link.is_visible(), outside any try.
verify_logo_link ==
    /\ op = "verify_logo_link"
    /\ status = "running"
    /\ UNCHANGED <<scroll, prev, session>>
    /\ pc = "is_visible"
    /\ \E dom \in Pages(logo_link) :
          LET resolved == OrFirst(dom, logo_link) IN
          /\ loc' = [dom |-> dom, resolved |-> resolved]
          /\ \E r \in VisibleAnswers(resolved) :
                /\ Log("logo_link", "is_visible", 0, r, 0)
                /\ IF r = "raise" THEN Raise ELSE Return(BoolRet(r = "true"))
    /\ UNCHANGED <<op, attached>>

\* LoginPage.verify_email_input_exists: email_input.is_visible(timeout=5000)
\* inside try/except returning False.
verify_email_input_exists ==
    /\ op = "verify_email_input_exists"
    /\ status = "running"
    /\ UNCHANGED <<scroll, prev, session>>
    /\ pc = "is_visible"
    /\ \E dom \in Pages(email_input) :
          LET resolved == OrFirst(dom, email_input) IN
          /\ loc' = [dom |-> dom, resolved |-> resolved]
          /\ \E r \in VisibleAnswers(resolved) :
                /\ Log("email_input", "is_visible", VisibleTimeout, r, 0)
                /\ Return(BoolRet(VisibleOrFalse(r)))
    /\ UNCHANGED <<op, attached>>

\* ------------------------------------------------------------------------
\* MainPageSteps.verify_menu_panel_displayed
\* ------------------------------------------------------------------------

PanelDisplayedTimeout == 5000
OptionProbeTimeout == 2000

verify_menu_panel_displayed ==
    /\ op = "verify_menu_panel_displayed"
    /\ status = "running"
    /\ UNCHANGED <<scroll, prev, session>>
    /\ UNCHANGED op
    /\ \/ /\ pc = "panel_visible"
          \* MainPage.verify_menu_panel_displayed: is_visible, False on except
          /\ \E r \in BoolOutcomes :
                /\ Log("menu_panel", "is_visible", PanelDisplayedTimeout, r, 0)
                /\ IF VisibleOrFalse(r)
                     THEN /\ loc' = [loc EXCEPT !.is_visible = TRUE]
                          /\ Goto("screenshot")
                     ELSE /\ loc' = [loc EXCEPT !.is_visible = FALSE]
                          /\ Goto("option_visible")
          /\ UNCHANGED attached
       \/ /\ pc = "option_visible"
          \* if not is_visible: menu_whats_new.is_visible, False on except
          /\ \E r \in BoolOutcomes :
                /\ Log("menu_whats_new", "is_visible", OptionProbeTimeout, r, 0)
                /\ loc' = [loc EXCEPT !.is_visible = VisibleOrFalse(r)]
                /\ IF VisibleOrFalse(r)
                     THEN Goto("screenshot")
                     ELSE Return(BoolRet(FALSE))
          /\ UNCHANGED attached
       \/ /\ pc = "screenshot"
          /\ \E r \in WaitOutcomes :
                /\ Log("menu_panel", "screenshot", 0, r, 0)
                /\ IF r = "ok"
                     THEN Attach("menu_panel") /\ Return(BoolRet(loc.is_visible))
                     ELSE UNCHANGED attached /\ Goto("page_screenshot")
          /\ UNCHANGED loc
       \/ /\ pc = "page_screenshot"
          \* inside the except handler, itself unguarded
          /\ \E r \in WaitOutcomes :
                /\ Log("page", "screenshot", 0, r, 0)
                /\ IF r = "ok"
                     THEN Attach("menu_panel") /\ Return(BoolRet(loc.is_visible))
                     ELSE UNCHANGED attached /\ Raise
          /\ UNCHANGED loc

\* ------------------------------------------------------------------------
\* MainPageSteps.verify_footer_options and verify_footer_link
\* ------------------------------------------------------------------------

\* section_map: the locator properties behind each section's options, in
\* the insertion order of MainPage.get_all_footer_options_<section>.
section_map ==
    [account |-> <<"footer_link_login", "footer_link_register">>,
     sections |-> <<"footer_link_articles", "footer_link_news",
                    "footer_link_hubs", "footer_link_companies",
                    "footer_link_authors", "footer_link_sandbox">>,
     information |-> <<"footer_link_site_structure", "footer_link_for_authors",
                       "footer_link_for_companies", "footer_link_documents",
                       "footer_link_agreement", "footer_link_privacy">>,
     services |-> <<"footer_link_corporate_blog", "footer_link_media_advertising",
                    "footer_link_native_projects",
                    "footer_link_education_programs", "footer_link_startups">>]

link_map ==
    [support |-> "footer_support_link", language |-> "footer_language_button"]

\* The names a caller may pass: those of the map and one that is not in it.
SectionNames == DOMAIN section_map \cup {"other"}
LinkNames == DOMAIN link_map \cup {"other"}

\* section_map.get(section_name, {}) and link_map.get(link_name)
SectionMapGet(section_name) ==
    IF section_name \in DOMAIN section_map
      THEN section_map[section_name] ELSE <<>>
LinkMapGet(link_name) ==
    IF link_name \in DOMAIN link_map THEN link_map[link_name] ELSE "None"

OptionsRet(results) == [kind |-> "options", value |-> results]
LinkRet(v, c) == [kind |-> "link", visible |-> v, clickable |-> c]

\* In this method `calls` holds the queries on the option the loop is at.
verify_footer_options ==
    /\ op = "verify_footer_options"
    /\ status = "running"
    /\ UNCHANGED <<scroll, prev, session>>
    /\ UNCHANGED op
    /\ LET option == loc.options[loc.i]
           \* end of one pass of the loop body, with the option's two fields
           Record(v, c) ==
               LET results == DictSet(loc.results, option,
                                      [visible |-> v, clickable |-> c]) IN
               /\ loc' = [loc EXCEPT !.results = results, !.i = @ + 1]
               /\ IF v THEN UNCHANGED attached
                       ELSE AttachFor("missing_footer_option", option)
               /\ IF loc.i < Len(loc.options)
                    THEN Goto("count") ELSE Return(OptionsRet(results))
       IN
       \/ /\ pc = "lookup"
          /\ \E section_name \in SectionNames :
                LET options == SectionMapGet(section_name) IN
                /\ loc' = [loc EXCEPT !.section_name = section_name,
                                      !.options = options]
                /\ IF options = <<>>
                     THEN Return(OptionsRet(<<>>)) ELSE Goto("count")
          /\ UNCHANGED <<calls, attached>>
       \/ /\ pc = "count"
          /\ \/ /\ calls' = <<Call(option, "count", 0, "raise", 0)>>
                /\ Record(FALSE, FALSE)
             \/ \E n \in 0..MaxCount :
                  /\ calls' = <<Call(option, "count", 0, "ok", n)>>
                  /\ IF n > 0
                       THEN Goto("is_visible") /\ UNCHANGED <<attached, loc>>
                       ELSE Record(FALSE, FALSE)
       \/ /\ pc = "is_visible"
          /\ \E r \in BoolOutcomes :
                /\ Log(option, "is_visible", VisibleTimeout, r, 0)
                /\ IF r = "true"
                     THEN Goto("is_enabled") /\ UNCHANGED <<attached, loc>>
                     ELSE Record(FALSE, FALSE)
       \/ /\ pc = "is_enabled"
          /\ \E r \in BoolOutcomes :
                /\ Log(option, "is_enabled", 0, r, 0)
                /\ IF r = "raise"
                     THEN Record(FALSE, FALSE) ELSE Record(TRUE, r = "true")

verify_footer_link ==
    /\ op = "verify_footer_link"
    /\ status = "running"
    /\ UNCHANGED <<scroll, prev, session>>
    /\ UNCHANGED op
    /\ LET link_locator == LinkMapGet(loc.link_name)
           \* after the try: screenshot if visible, else return
           Finish(v, c) ==
               /\ loc' = [loc EXCEPT !.visible = v, !.clickable = c]
               /\ IF v THEN Goto("screenshot") ELSE Return(LinkRet(v, c))
       IN
       \/ /\ pc = "lookup"
          /\ \E link_name \in LinkNames :
                /\ loc' = [loc EXCEPT !.link_name = link_name]
                /\ IF LinkMapGet(link_name) = "None"
                     THEN Return(LinkRet(FALSE, FALSE)) ELSE Goto("count")
          /\ UNCHANGED <<calls, attached>>
       \/ /\ pc = "count"
          /\ UNCHANGED attached
          /\ \/ /\ Log(link_locator, "count", 0, "raise", 0)
                /\ Finish(FALSE, FALSE)
             \/ \E n \in 0..MaxCount :
                  /\ Log(link_locator, "count", 0, "ok", n)
                  /\ IF n > 0
                       THEN Goto("is_visible") /\ UNCHANGED loc
                       ELSE Finish(FALSE, FALSE)
       \/ /\ pc = "is_visible"
          /\ UNCHANGED attached
          /\ \E r \in BoolOutcomes :
                /\ Log(link_locator, "is_visible", VisibleTimeout, r, 0)
                /\ IF r = "true"
                     THEN Goto("is_enabled") /\ UNCHANGED loc
                     ELSE Finish(FALSE, FALSE)
       \/ /\ pc = "is_enabled"
          /\ UNCHANGED attached
          /\ \E r \in BoolOutcomes :
                /\ Log(link_locator, "is_enabled", 0, r, 0)
                /\ IF r = "raise"
                     THEN Finish(FALSE, FALSE) ELSE Finish(TRUE, r = "true")
       \/ /\ pc = "screenshot"
          \* reached only with is_visible = True; outside the try
          /\ \E r \in WaitOutcomes :
                /\ Log(link_locator, "screenshot", 0, r, 0)
                /\ IF r = "ok"
                     THEN /\ AttachFor("footer_link", loc.link_name)
                          /\ Return(LinkRet(loc.visible, loc.clickable))
                     ELSE UNCHANGED attached /\ Raise
          /\ UNCHANGED loc

\* ------------------------------------------------------------------------
\* LoginPageSteps.verify_login_window_displayed, verify_login_form_fields,
\* verify_login_form_buttons and verify_captcha_iframe_form
\* ------------------------------------------------------------------------

\* One element a method checks: the LoginPage locator property q, the second
\* query made when it is visible ("" for none, else the name of the result
\* field it fills), and the names of the evidence attached for it when it is
\* visible (name) and when it is not (missing); "" where the method attaches
\* nothing for the element.
Element(q, second, name, missing) ==
    [q |-> q, second |-> second, name |-> name, missing |-> missing]

LoginWindowElements ==
    <<Element("login_modal", "", "login_window", "login_window_not_visible")>>

LoginFormFields ==
    <<Element("login_title", "", "login_title", "login_title_not_visible"),
      Element("email_label", "", "email_label", "email_label_not_visible"),
      Element("password_label", "", "password_label",
              "password_label_not_visible"),
      Element("email_input", "enabled", "", ""),
      Element("password_input", "enabled", "", "")>>

LoginFormButtons ==
    <<Element("login_submit_button", "clickable", "login_submit_button",
              "login_submit_button_not_visible"),
      Element("forgot_password_link", "clickable", "forgot_password_link",
              "forgot_password_link_not_visible")>>

CaptchaFormElements ==
    <<Element("captcha_container", "", "captcha_container",
              "captcha_container_not_visible")>>

\* The name of the evidence attached for element e, found visible or not.
EvidenceName(e, visible) == IF visible THEN e.name ELSE e.missing

DictRet(results) == [kind |-> "dict", value |-> results]

\* What the running method returns: verify_login_window_displayed its
\* is_visible, the three others their results mapping.
ResultOf(results) ==
    IF op = "verify_login_window_displayed"
      THEN BoolRet(results["login_modal"].visible) ELSE DictRet(results)

\* The body shared by the four methods: for each element in turn,
\* LoginPage.verify_<element>_exists (is_visible inside try/except returning
\* False), then for a visible element its enabled/clickable check (is_enabled
\* inside try/except returning False), then the evidence: for a visible
\* element its screenshot, taken outside any try, else a text.
CheckElements(elements) ==
    LET e == elements[loc.i]
        Finish(v, s) ==
            LET results == DictSet(loc.results, e.q,
                                   [visible |-> v, second |-> s]) IN
            /\ loc' = [loc EXCEPT !.results = results, !.i = @ + 1]
            /\ IF loc.i < Len(elements)
                 THEN Goto("is_visible") ELSE Return(ResultOf(results))
        \* if visible: attach screenshot, else: attach text
        Evidenced(v, s) ==
            IF e.name = "" THEN Finish(v, s) /\ UNCHANGED attached
            ELSE IF v THEN /\ Goto("screenshot")
                           /\ loc' = [loc EXCEPT !.visible = v, !.second = s]
                           /\ UNCHANGED attached
            ELSE Finish(v, s) /\ Attach(EvidenceName(e, v))
    IN
    \/ /\ pc = "is_visible"
       /\ \E r \in BoolOutcomes :
             /\ Log(e.q, "is_visible", VisibleTimeout, r, 0)
             /\ IF VisibleOrFalse(r) /\ e.second # ""
                  THEN /\ Goto("is_enabled")
                       /\ loc' = [loc EXCEPT !.visible = TRUE]
                       /\ UNCHANGED attached
                  ELSE Evidenced(VisibleOrFalse(r), FALSE)
    \/ /\ pc = "is_enabled"
       /\ \E r \in BoolOutcomes :
             /\ Log(e.q, "is_enabled", 0, r, 0)
             /\ Evidenced(loc.visible, VisibleOrFalse(r))
    \/ /\ pc = "screenshot"
       /\ \E r \in WaitOutcomes :
             /\ Log(e.q, "screenshot", 0, r, 0)
             /\ IF r = "ok"
                  THEN /\ Finish(loc.visible, loc.second)
                       /\ Attach(EvidenceName(e, loc.visible))
                  ELSE Raise /\ UNCHANGED <<attached, loc>>

verify_login_window_displayed ==
    /\ op = "verify_login_window_displayed"
    /\ status = "running"
    /\ UNCHANGED <<scroll, prev, session>>
    /\ UNCHANGED op
    /\ CheckElements(LoginWindowElements)

verify_login_form_fields ==
    /\ op = "verify_login_form_fields"
    /\ status = "running"
    /\ UNCHANGED <<scroll, prev, session>>
    /\ UNCHANGED op
    /\ CheckElements(LoginFormFields)

verify_login_form_buttons ==
    /\ op = "verify_login_form_buttons"
    /\ status = "running"
    /\ UNCHANGED <<scroll, prev, session>>
    /\ UNCHANGED op
    /\ CheckElements(LoginFormButtons)

verify_captcha_iframe_form ==
    /\ op = "verify_captcha_iframe_form"
    /\ status = "running"
    /\ UNCHANGED <<scroll, prev, session>>
    /\ UNCHANGED op
    /\ CheckElements(CaptchaFormElements)

\* ------------------------------------------------------------------------
\* The pytest session of one worker process (conftest.py)
\* ------------------------------------------------------------------------

\* What create_allure_environment_file writes, in order: the Python line,
\* the Platform line, the Packages block, the Plugins block, the Base URL
\* line.
EnvParts == <<"Python", "Platform", "Packages", "Plugins", "Base URL">>

\* A resource a worker writes: the file at the fixed relative path
\* reports/allure-results/environment.properties (of = 0: the same file for
\* every worker), or an object of worker `of`.
Resource(kind, of) == [kind |-> kind, of |-> of]
Write(w, r) == written' = written \cup {[res |-> r, by |-> w]}

At(w, l) == worker[w].pc = l
Move(w, l) == worker' = [worker EXCEPT ![w].pc = l]

\* Everything the worker processes never touch.
test == <<op, pc, status, ret, calls, attached, loc, scroll, prev, run>>

\* pytest_configure -> create_allure_environment_file, in every worker
\* process.  open(env_file, 'w') truncates the file; the f.write calls fill
\* the worker's buffer; leaving the with block flushes the buffer to the
\* file from offset 0.
pytest_configure(w) ==
    /\ UNCHANGED test
    /\ \/ /\ At(w, "configure")
          \* gather versions; allure_results_dir.mkdir(exist_ok=True)
          /\ Move(w, "open")
          /\ UNCHANGED <<env_file, written>>
       \/ /\ At(w, "open")
          /\ env_file' = <<>>
          /\ Write(w, Resource("environment.properties", 0))
          /\ worker' = [worker EXCEPT ![w].pc = "write", ![w].pos = 0]
       \/ /\ At(w, "write")
          /\ worker' = IF worker[w].pos < Len(EnvParts)
                          THEN [worker EXCEPT ![w].pos = @ + 1]
                          ELSE [worker EXCEPT ![w].pc = "close"]
          /\ UNCHANGED <<env_file, written>>
       \/ /\ At(w, "close")
          /\ env_file' =
                [i \in 1..(IF Len(env_file) > worker[w].pos
                             THEN Len(env_file) ELSE worker[w].pos) |->
                    IF i <= worker[w].pos
                      THEN [part |-> EnvParts[i], by |-> w] ELSE env_file[i]]
          /\ Move(w, "configured")
          /\ UNCHANGED written

\* One thing a fixture did: e names it, id is the object it was done to or
\* with (the n-th context or page the worker created; 0 for the browser).
Event(e, id) == [e |-> e, id |-> id]

\* The fixture of worker w moves to l and records what it did.
Fixture(w, l, e, id) ==
    worker' = [worker EXCEPT ![w].pc = l,
                             ![w].log = Append(@, Event(e, id))]

\* The session-scoped browser fixture: chromium.launch() when the worker's
\* first test asks for it, browser.close() after its last test.
browser(w) ==
    /\ UNCHANGED <<test, env_file>>
    /\ \/ /\ At(w, "configured")
          /\ Fixture(w, "launched", "launch", 0)
       \/ /\ At(w, "launched")
          /\ worker[w].n > 0
          /\ Fixture(w, "exit", "close_browser", 0)
    /\ Write(w, Resource("browser", w))

\* The function-scoped browser_context fixture: browser.new_context()
\* before a test, context.close() after it.
browser_context(w) ==
    /\ UNCHANGED <<test, env_file>>
    /\ \/ /\ At(w, "launched")
          /\ worker[w].n < MaxTests
          /\ worker' = [worker EXCEPT
                ![w].pc = "context",
                ![w].n = @ + 1,
                ![w].log = Append(@, Event("new_context", worker[w].n + 1))]
       \/ /\ At(w, "page_closed")
          /\ Fixture(w, "launched", "close_context", worker[w].n)
    /\ Write(w, Resource("context", w))

\* The function-scoped page fixture: browser_context.new_page() before a
\* test, page.close() after it; being set up last it is torn down first.
page(w) ==
    /\ UNCHANGED <<test, env_file>>
    /\ \/ /\ At(w, "context")
          /\ Fixture(w, "page", "new_page", worker[w].n)
       \/ /\ At(w, "tested")
          /\ worker' = [worker EXCEPT
                ![w].pc = "page_closed",
                ![w].main = 0,
                ![w].login = 0,
                ![w].log = Append(@, Event("close_page", worker[w].n))]
    /\ Write(w, Resource("page", w))

\* A step fixture handed a page kept from the worker's first test.
PageOfFirst(w) == 1

\* The value of the `page` argument of a step fixture: the page the page
\* fixture made for the current test.
PageOf(w) == worker[w].n

\* The main_page_steps fixture: MainPageSteps(page).
main_page_steps(w) ==
    /\ UNCHANGED <<test, env_file, written>>
    /\ At(w, "page")
    /\ worker' = [worker EXCEPT
          ![w].pc = "main_page_steps",
          ![w].main = PageOf(w),
          ![w].log = Append(@, Event("MainPageSteps", PageOf(w)))]

\* The login_page_steps fixture: LoginPageSteps(page), for the test that
\* asks for both step objects.
login_page_steps(w) ==
    /\ UNCHANGED <<test, env_file, written>>
    /\ At(w, "main_page_steps")
    /\ worker' = [worker EXCEPT
          ![w].pc = "login_page_steps",
          ![w].login = PageOf(w),
          ![w].log = Append(@, Event("LoginPageSteps", PageOf(w)))]

\* A test of the worker drives the page of its step objects through the
\* step methods.
run_test(w) ==
    /\ UNCHANGED <<test, env_file>>
    /\ worker[w].pc \in {"main_page_steps", "login_page_steps"}
    /\ Fixture(w, "tested", "test", worker[w].main)
    /\ Write(w, Resource("page", w))

NextWorkers ==
    \E w \in Workers :
        \/ pytest_configure(w)
        \/ browser(w)
        \/ browser_context(w)
        \/ page(w)
        \/ main_page_steps(w)
        \/ login_page_steps(w)
        \/ run_test(w)

\* The session of one worker process followed on its own (a run without
\* pytest-xdist, or any one worker of a run with it).
NextSession ==
    \/ pytest_configure(1)
    \/ browser(1)
    \/ browser_context(1)
    \/ page(1)
    \/ main_page_steps(1)
    \/ login_page_steps(1)
    \/ run_test(1)

\* ------------------------------------------------------------------------
\* MainPageSteps.verify_social_icons_section
\* ------------------------------------------------------------------------

\* MainPage.get_all_social_icons: the locator properties behind VK,
\* Telegram, Youtube, Dzen, in insertion order.
SocialIcons ==
    <<"footer_social_icon_vk", "footer_social_icon_telegram",
      "footer_social_icon_youtube", "footer_social_icon_dzen">>

IconProbeTimeout == 2000
SectionProbeTimeout == 2000

\* The section screenshot standing outside the inner try.
SocialIconsNextUnguarded(at, r, n, last) ==
    LET NextIcon == IF last THEN "return" ELSE "count" IN
    CASE at = "count" -> IF r = "ok" /\ n > 0 THEN "is_visible" ELSE NextIcon
      [] at = "is_visible" -> IF r = "true" THEN "section_visible" ELSE NextIcon
      [] at = "section_visible" -> IF r = "true" THEN "screenshot" ELSE "return"
      [] at = "screenshot" -> IF r = "ok" THEN "return" ELSE "raise"

\* Control flow of verify_social_icons_section: the label reached from `at`
\* when the call made there has outcome r (and count n); `last` says the
\* loop is at the last icon.  "count" from "count" or "is_visible" is the
\* `continue` (or the fall-through) to the next icon; the section probe and
\* its screenshot are inside a try whose handler is `pass`, followed by
\* `break`.
SocialIconsNext(at, r, n, last) ==
    LET NextIcon == IF last THEN "return" ELSE "count" IN
    CASE at = "count" -> IF r = "ok" /\ n > 0 THEN "is_visible" ELSE NextIcon
      [] at = "is_visible" -> IF r = "true" THEN "section_visible" ELSE NextIcon
      [] at = "section_visible" -> IF r = "true" THEN "screenshot" ELSE "return"
      [] at = "screenshot" -> "return"

verify_social_icons_section ==
    /\ op = "verify_social_icons_section"
    /\ status = "running"
    /\ UNCHANGED <<scroll, prev, session>>
    /\ UNCHANGED op
    /\ LET icon == SocialIcons[loc.i]
           Step(r, n) ==
               LET nx == SocialIconsNext(pc, r, n, loc.i = Len(SocialIcons))
                   is_visible == loc.is_visible
                                   \/ (pc = "is_visible" /\ r = "true")
               IN
               /\ loc' = [i |-> IF nx = "count" THEN loc.i + 1 ELSE loc.i,
                          is_visible |-> is_visible]
               /\ CASE nx = "return" -> Return(BoolRet(is_visible))
                    [] nx = "raise" -> Raise
                    [] OTHER -> Goto(nx)
       IN
       \/ /\ pc = "count"
          /\ UNCHANGED attached
          /\ \/ Log(icon, "count", 0, "raise", 0) /\ Step("raise", 0)
             \/ \E n \in 0..MaxCount :
                  Log(icon, "count", 0, "ok", n) /\ Step("ok", n)
       \/ /\ pc = "is_visible"
          /\ UNCHANGED attached
          /\ \E r \in BoolOutcomes :
                Log(icon, "is_visible", IconProbeTimeout, r, 0) /\ Step(r, 0)
       \/ /\ pc = "section_visible"
          /\ UNCHANGED attached
          /\ \E r \in BoolOutcomes :
                /\ Log("div.social-icons.tm-footer__social", "is_visible",
                       SectionProbeTimeout, r, 0)
                /\ Step(r, 0)
       \/ /\ pc = "screenshot"
          /\ \E r \in WaitOutcomes :
                /\ Log("div.social-icons.tm-footer__social", "screenshot",
                       0, r, 0)
                /\ IF r = "ok" THEN Attach("social_icons_section")
                               ELSE UNCHANGED attached
                /\ Step(r, 0)

\* ------------------------------------------------------------------------
\* MainPageSteps.verify_menu_button, verify_menu_options,
\* verify_services_section and verify_social_icons
\* ------------------------------------------------------------------------

\* The loops over a dictionary of locators are followed through its first
\* MaxOptions entries: every pass runs the same statements on its own
\* locator and reads nothing an earlier pass left.
MaxOptions == 2

FirstOptions(options) ==
    SubSeq(options, 1, IF Len(options) < MaxOptions
                         THEN Len(options) ELSE MaxOptions)

\* MainPage.get_all_menu_options and get_all_service_links: the locator
\* properties behind the entries, in insertion order.
MenuOptions ==
    <<"menu_whats_new", "menu_backend", "menu_frontend", "menu_administration",
      "menu_design", "menu_management", "menu_marketing", "menu_science",
      "menu_development", "menu_all_streams">>

ServiceLinks ==
    <<"service_habr_link", "service_qa_link", "service_career_link",
      "service_courses_link">>

MenuButtonRet(e, c) == [kind |-> "menu_button", exists |-> e, clickable |-> c]
ServicesRet(header, links) ==
    [kind |-> "services", section_header |-> header, service_links |-> links]

\* verify_menu_button: MainPage.verify_menu_button_exists and
\* verify_menu_button_clickable are bare is_visible() / is_enabled(); the
\* screenshot is outside any try.
verify_menu_button ==
    /\ op = "verify_menu_button"
    /\ status = "running"
    /\ UNCHANGED <<scroll, prev, session>>
    /\ UNCHANGED op
    /\ \/ /\ pc = "is_visible"
          /\ \E r \in BoolOutcomes :
                /\ Log("menu_button", "is_visible", 0, r, 0)
                /\ CASE r = "raise" -> Raise /\ UNCHANGED loc
                     [] r = "true" -> Goto("is_enabled")
                                      /\ loc' = [loc EXCEPT !.exists = TRUE]
                     [] r = "false" -> Return(MenuButtonRet(FALSE, FALSE))
                                       /\ UNCHANGED loc
          /\ UNCHANGED attached
       \/ /\ pc = "is_enabled"
          /\ \E r \in BoolOutcomes :
                /\ Log("menu_button", "is_enabled", 0, r, 0)
                /\ IF r = "raise"
                     THEN Raise /\ UNCHANGED loc
                     ELSE /\ Goto("screenshot")
                          /\ loc' = [loc EXCEPT !.clickable = (r = "true")]
          /\ UNCHANGED attached
       \/ /\ pc = "screenshot"
          /\ \E r \in WaitOutcomes :
                /\ Log("menu_button", "screenshot", 0, r, 0)
                /\ IF r = "ok"
                     THEN /\ Attach("menu_button")
                          /\ Return(MenuButtonRet(loc.exists, loc.clickable))
                     ELSE UNCHANGED attached /\ Raise
          /\ UNCHANGED loc

\* The enabled-state query made whatever is_visible answered.
SecondQueryAlways(visible) == TRUE

\* `X.is_enabled() if is_visible else False`: whether the enabled-state
\* query is made, given what is_visible() returned.
SecondQuery(visible) == visible

\* The loop shared by verify_menu_options, verify_services_section and
\* verify_social_icons: for each option count(), then for count > 0
\* is_visible(timeout=5000), then for a visible option is_enabled(), all
\* inside one try whose handler sets both fields False; then the entry of
\* `results` and, for an option not visible, the text evidence `missing`.
\* In these methods `calls` holds the queries on the option the loop is at.
\* `last` says no statement follows the loop but the return.
CheckOptions(options, missing, last) ==
    LET option == options[loc.i]
        Record(v, c) ==
            LET results == DictSet(loc.results, option,
                                   [visible |-> v, clickable |-> c]) IN
            /\ loc' = [loc EXCEPT !.results = results, !.i = @ + 1]
            /\ IF v THEN UNCHANGED attached ELSE AttachFor(missing, option)
            /\ IF loc.i < Len(options) THEN Goto("count")
               ELSE IF last THEN Return(OptionsRet(results))
               ELSE Goto("after_loop")
    IN
    \/ /\ pc = "count"
       /\ \/ /\ calls' = <<Call(option, "count", 0, "raise", 0)>>
             /\ Record(FALSE, FALSE)
          \/ \E n \in 0..MaxCount :
               /\ calls' = <<Call(option, "count", 0, "ok", n)>>
               /\ IF n > 0
                    THEN Goto("is_visible") /\ UNCHANGED <<attached, loc>>
                    ELSE Record(FALSE, FALSE)
    \/ /\ pc = "is_visible"
       /\ \E r \in BoolOutcomes :
             /\ Log(option, "is_visible", VisibleTimeout, r, 0)
             /\ IF r # "raise" /\ SecondQuery(r = "true")
                  THEN Goto("is_enabled") /\ UNCHANGED attached
                       /\ loc' = [loc EXCEPT !.is_visible = (r = "true")]
                  ELSE Record(FALSE, FALSE)
    \/ /\ pc = "is_enabled"
       /\ \E r \in BoolOutcomes :
             /\ Log(option, "is_enabled", 0, r, 0)
             /\ IF r = "raise"
                  THEN Record(FALSE, FALSE)
                  ELSE Record(loc.is_visible, r = "true")

verify_menu_options ==
    /\ op = "verify_menu_options"
    /\ status = "running"
    /\ UNCHANGED <<scroll, prev, session>>
    /\ UNCHANGED op
    /\ CheckOptions(FirstOptions(MenuOptions), "missing_menu_option", TRUE)

verify_social_icons ==
    /\ op = "verify_social_icons"
    /\ status = "running"
    /\ UNCHANGED <<scroll, prev, session>>
    /\ UNCHANGED op
    /\ CheckOptions(FirstOptions(SocialIcons), "missing_social_icon", TRUE)

\* verify_services_section: the header probe (False on except), the loop
\* over the service links, then for a visible header its screenshot, outside
\* any try.
verify_services_section ==
    /\ op = "verify_services_section"
    /\ status = "running"
    /\ UNCHANGED <<scroll, prev, session>>
    /\ UNCHANGED op
    /\ \/ /\ pc = "header_visible"
          /\ \E r \in BoolOutcomes :
                /\ Log("services_section_header", "is_visible",
                       VisibleTimeout, r, 0)
                /\ loc' = [loc EXCEPT !.header_visible = VisibleOrFalse(r)]
          /\ Goto("count")
          /\ UNCHANGED attached
       \/ CheckOptions(FirstOptions(ServiceLinks), "missing_service_link",
                       FALSE)
       \/ /\ pc = "after_loop"
          /\ IF loc.header_visible
               THEN \E r \in WaitOutcomes :
                      /\ Log("services_section_header", "screenshot", 0, r, 0)
                      /\ IF r = "ok"
                           THEN /\ Attach("services_section_header")
                                /\ Return(ServicesRet(TRUE, loc.results))
                           ELSE UNCHANGED attached /\ Raise
               ELSE /\ Return(ServicesRet(FALSE, loc.results))
                    /\ UNCHANGED <<calls, attached>>
          /\ UNCHANGED loc

\* ------------------------------------------------------------------------
\* LoginPageSteps.verify_registration_link and verify_social_login_options
\* ------------------------------------------------------------------------

RegistrationShotTimeout == 3000
SocialWaitTimeout == 10000
SocialShotTimeout == 5000
SocialFallbackTimeout == 3000
SocialButtonTimeout == 3000
SocialIconTimeout == 2000

RegistrationRet(t, v, c) ==
    [kind |-> "registration", text_visible |-> t, link_visible |-> v,
     link_clickable |-> c]

\* verify_registration_link: LoginPage.verify_registration_text_exists,
\* verify_registration_link_exists and verify_registration_link_clickable
\* each return False on except; both screenshots are inside a try whose
\* handler attaches a text instead.
verify_registration_link ==
    /\ op = "verify_registration_link"
    /\ status = "running"
    /\ UNCHANGED <<scroll, prev, session>>
    /\ UNCHANGED op
    /\ \/ /\ pc = "text_visible"
          /\ \E r \in BoolOutcomes :
                /\ Log("registration_text", "is_visible", VisibleTimeout, r, 0)
                /\ loc' = [loc EXCEPT !.text_visible = VisibleOrFalse(r)]
                /\ IF VisibleOrFalse(r)
                     THEN Goto("text_screenshot") ELSE Goto("link_visible")
          /\ UNCHANGED attached
       \/ /\ pc = "text_screenshot"
          /\ \E r \in WaitOutcomes :
                /\ Log("registration_text", "screenshot",
                       RegistrationShotTimeout, r, 0)
                /\ IF r = "ok"
                     THEN Attach("registration_text")
                     ELSE Attach("registration_text_screenshot_failed")
          /\ Goto("link_visible")
          /\ UNCHANGED loc
       \/ /\ pc = "link_visible"
          /\ \E r \in BoolOutcomes :
                /\ Log("registration_link", "is_visible", VisibleTimeout, r, 0)
                /\ IF VisibleOrFalse(r)
                     THEN /\ loc' = [loc EXCEPT !.link_visible = TRUE]
                          /\ Goto("link_enabled")
                          /\ UNCHANGED attached
                     ELSE /\ UNCHANGED loc
                          /\ Attach("registration_link_not_visible")
                          /\ Return(RegistrationRet(loc.text_visible,
                                                    FALSE, FALSE))
       \/ /\ pc = "link_enabled"
          /\ \E r \in BoolOutcomes :
                /\ Log("registration_link", "is_enabled", 0, r, 0)
                /\ loc' = [loc EXCEPT !.link_clickable = VisibleOrFalse(r)]
          /\ Goto("link_screenshot")
          /\ UNCHANGED attached
       \/ /\ pc = "link_screenshot"
          /\ \E r \in WaitOutcomes :
                /\ Log("registration_link", "screenshot",
                       RegistrationShotTimeout, r, 0)
                /\ IF r = "ok"
                     THEN Attach("registration_link")
                     ELSE Attach("registration_link_screenshot_failed")
          /\ Return(RegistrationRet(loc.text_visible, loc.link_visible,
                                    loc.link_clickable))
          /\ UNCHANGED loc

\* LoginPage.get_all_social_login_buttons with button_to_icon_map and
\* get_all_social_login_icons: each button's locator property and that of
\* its icon, in insertion order.
SocialLoginButtons ==
    <<[button |-> "social_login_github", icon |-> "social_login_icon_github"],
      [button |-> "social_login_vk", icon |-> "social_login_icon_vk"],
      [button |-> "social_login_google", icon |-> "social_login_icon_google"],
      [button |-> "social_login_facebook",
       icon |-> "social_login_icon_facebook"],
      [button |-> "social_login_twitter", icon |-> "social_login_icon_twitter"],
      [button |-> "social_login_yandex", icon |-> "social_login_icon_yandex"]>>

\* The two elements checked before the loop, with the label that follows
\* each.
SocialParts ==
    [social_buttons_block |-> "social_login_text", social_login_text |-> "count"]

\* About the evidence of these two elements: it is recorded as
\* Evidence(suffix, element) for the name <element><suffix>, the suffix
\* being "", "_page_fallback", "_screenshot_info", "_screenshot_failed" or
\* "_not_visible".
SocialLoginRet(results) == [kind |-> "social_login", value |-> results]

\* `if icon_name and icon_name in social_icons and is_visible`: whether the
\* icon of a button is probed (every button has an icon in both maps).
IconQuery(is_visible) == is_visible

verify_social_login_options ==
    /\ op = "verify_social_login_options"
    /\ status = "running"
    /\ UNCHANGED <<scroll, prev, session>>
    /\ UNCHANGED op
    /\ LET buttons == FirstOptions(SocialLoginButtons)
           b == buttons[loc.i]
           \* after the element `part`: the next element, or the loop
           After(part) ==
               /\ pc' = (IF SocialParts[part] = "count"
                           THEN "count" ELSE "part_visible")
               /\ status' = status /\ ret' = ret
               /\ loc' = [loc EXCEPT
                     !.part = SocialParts[part],
                     !.results = IF pc = "part_visible"
                                   THEN DictSet(@, part, [visible |-> FALSE])
                                   ELSE @]
           \* the end of one pass of the loop
           Record(v, c, iv) ==
               LET results == DictSet(loc.results, b.button,
                                      [visible |-> v, clickable |-> c,
                                       icon_visible |-> iv]) IN
               /\ loc' = [loc EXCEPT !.results = results, !.i = @ + 1,
                                     !.is_visible = FALSE,
                                     !.is_clickable = FALSE]
               /\ attached' = attached
                     \o (IF v THEN <<>>
                         ELSE <<Evidence("missing_social_button", b.button)>>)
                     \o (IF iv THEN <<>>
                         ELSE <<Evidence("missing_social_icon", b.icon)>>)
               /\ IF loc.i < Len(buttons)
                    THEN Goto("count") ELSE Return(SocialLoginRet(results))
           \* after the try around the button's queries
           Button(v, c) ==
               IF IconQuery(v)
                 THEN /\ Goto("icon_count") /\ UNCHANGED attached
                      /\ loc' = [loc EXCEPT !.is_visible = v,
                                            !.is_clickable = c]
                 ELSE Record(v, c, FALSE)
       IN
       \/ /\ pc = "part_visible"
          /\ \E r \in BoolOutcomes :
                /\ Log(loc.part, "is_visible", VisibleTimeout, r, 0)
                /\ IF VisibleOrFalse(r)
                     THEN /\ Goto("part_wait") /\ UNCHANGED attached
                          /\ loc' = [loc EXCEPT !.results =
                                DictSet(@, loc.part, [visible |-> TRUE])]
                     ELSE /\ After(loc.part)
                          /\ IF loc.part = "social_buttons_block"
                               THEN AttachFor("_not_visible", loc.part)
                               ELSE UNCHANGED attached
       \/ /\ pc = "part_wait"
          /\ \E r \in WaitOutcomes :
                /\ Log(loc.part, "wait_for_visible", SocialWaitTimeout, r, 0)
                /\ IF r = "ok" THEN Goto("part_screenshot")
                               ELSE Goto("part_fallback")
          /\ UNCHANGED <<attached, loc>>
       \/ /\ pc = "part_screenshot"
          /\ \E r \in WaitOutcomes :
                /\ Log(loc.part, "screenshot", SocialShotTimeout, r, 0)
                /\ IF r = "ok"
                     THEN AttachFor("", loc.part) /\ After(loc.part)
                     ELSE /\ Goto("part_fallback")
                          /\ UNCHANGED <<attached, loc>>
       \/ /\ pc = "part_fallback"
          /\ \E r \in WaitOutcomes :
                /\ Log("page", "screenshot", SocialFallbackTimeout, r, 0)
                /\ attached' = attached \o
                      (IF r = "ok"
                         THEN <<Evidence("_page_fallback", loc.part),
                                Evidence("_screenshot_info", loc.part)>>
                         ELSE <<Evidence("_screenshot_failed", loc.part)>>)
          /\ After(loc.part)
       \/ /\ pc = "count"
          /\ \/ /\ calls' = <<Call(b.button, "count", 0, "raise", 0)>>
                /\ Button(FALSE, FALSE)
             \/ \E n \in 0..MaxCount :
                  /\ calls' = <<Call(b.button, "count", 0, "ok", n)>>
                  /\ IF n > 0
                       THEN Goto("is_visible") /\ UNCHANGED <<attached, loc>>
                       ELSE Button(FALSE, FALSE)
       \/ /\ pc = "is_visible"
          /\ \E r \in BoolOutcomes :
                /\ Log(b.button, "is_visible", SocialButtonTimeout, r, 0)
                /\ IF r = "true"
                     THEN Goto("is_enabled") /\ UNCHANGED <<attached, loc>>
                     ELSE Button(FALSE, FALSE)
       \/ /\ pc = "is_enabled"
          /\ \E r \in BoolOutcomes :
                /\ Log(b.button, "is_enabled", 0, r, 0)
                /\ IF r = "raise"
                     THEN Button(FALSE, FALSE) ELSE Button(TRUE, r = "true")
       \/ /\ pc = "icon_count"
          /\ \/ /\ Log(b.icon, "count", 0, "raise", 0)
                /\ Record(loc.is_visible, loc.is_clickable, FALSE)
             \/ \E n \in 0..MaxCount :
                  /\ Log(b.icon, "count", 0, "ok", n)
                  /\ IF n > 0
                       THEN Goto("icon_visible") /\ UNCHANGED <<attached, loc>>
                       ELSE Record(loc.is_visible, loc.is_clickable, FALSE)
       \/ /\ pc = "icon_visible"
          /\ \E r \in BoolOutcomes :
                /\ Log(b.icon, "is_visible", SocialIconTimeout, r, 0)
                /\ Record(loc.is_visible, loc.is_clickable, VisibleOrFalse(r))

\* ------------------------------------------------------------------------
\* The test functions of tests/test_main_page_elements.py
\* ------------------------------------------------------------------------

\* A value as a test reads it: truthy or falsy, or the key of a dict that is
\* absent (d[k] raises KeyError, d.get(k, False) and d.get(k, {}) fall back
\* to a falsy default, so an absent entry reads as one with no fields).
Field == {"missing", "falsy", "truthy"}
Truth == {"falsy", "truthy"}
Truthy(v) == v = "truthy"
Bool(b) == IF b THEN "truthy" ELSE "falsy"

\* {key: value} and {key: {field: value}} over the keys a test looks up.
Flat(keys) == [keys -> Field]
Dict(keys, fields) == [keys -> [fields -> Field]]

\* The expected_* lists of the tests (the keys are the display names of the
\* elements, written here in Latin letters), cut to the first MaxOptions.
Expected ==
    LET First(options) ==
            {FirstOptions(options)[i] : i \in DOMAIN FirstOptions(options)}
    IN [tabs |-> First(<<"Stati", "Posty", "Novosti", "Khaby", "Avtory",
                         "Kompanii">>),
        header_elements |-> First(<<"Vse potoki", "Poisk",
                                    "Napisat publikatsiyu", "Nastroiki",
                                    "Voiti">>),
        menu_options |-> First(<<"Chto novogo", "Bekend", "Frontend",
                                 "Administrirovanie", "Dizain", "Menedzhment",
                                 "Marketing i kontent", "Nauchpop",
                                 "Razrabotka", "Vse potoki">>),
        service_links |-> First(<<"Khabr", "Q&A", "Karera", "Kursy">>),
        titles |-> First(<<"Vash akkaunt", "Razdely", "Informatsiya",
                           "Uslugi">>),
        account_options |-> First(<<"Voiti", "Registratsiya">>),
        sections_options |-> First(<<"Stati", "Novosti", "Khaby", "Kompanii",
                                     "Avtory", "Pesochnitsa">>),
        information_options |-> First(<<"Ustroistvo saita", "Dlya avtorov",
                                        "Dlya kompanii", "Dokumenty",
                                        "Soglashenie", "Konfidentsialnost">>),
        services_options |-> First(<<"Korporativnyi blog", "Mediinaya reklama",
                                     "Nativnye proekty",
                                     "Obrazovatelnye programmy",
                                     "Startapam">>),
        social_icons |-> First(<<"VK", "Telegram", "Youtube", "Dzen">>),
        social_buttons |-> First(<<"Voiti s pomoshchyu GitHub",
                                   "Voiti s pomoshchyu VK",
                                   "Voiti s pomoshchyu Google",
                                   "Voiti s pomoshchyu Facebook",
                                   "Voiti s pomoshchyu Twitter",
                                   "Voiti s pomoshchyu Yandex">>)]

\* [x for x in expected if not results.get(x, False)]
missing_flat(results, expected) == {x \in expected : ~Truthy(results[x])}

\* [x for x in expected if not results.get(x, {}).get(field, False)]
missing(results, expected, field) ==
    {x \in expected : ~Truthy(results[x][field])}

\* The visible test of the comprehension turned around.
not_clickable_hidden(results, expected) ==
    {x \in expected : /\ ~Truthy(results[x]["visible"])
                      /\ ~Truthy(results[x]["clickable"])}

\* [x for x in expected if results.get(x, {}).get("visible", False)
\*                         and not results.get(x, {}).get("clickable", False)]
not_clickable(results, expected) ==
    {x \in expected : /\ Truthy(results[x]["visible"])
                      /\ ~Truthy(results[x]["clickable"])}

\* One entry per step-method call of a test, in program order: the method,
\* the local the result is bound to ("" when it is dropped) and the values
\* the call can hand back.
TestCall(call, var, returns) == [call |-> call, var |-> var, returns |-> returns]

test_verify_main_page_elements_steps ==
    <<TestCall("navigate_to_main_page", "", {"none"}),
      TestCall("verify_header_container", "header_visible", Truth),
      TestCall("verify_all_content_tabs", "tabs_results", Flat(Expected.tabs)),
      TestCall("verify_logo_link", "logo_visible", Truth),
      TestCall("verify_header_elements", "header_elements_results",
               Flat(Expected.header_elements)),
      TestCall("verify_main_content_area", "content_area_visible", Truth),
      TestCall("verify_footer_section", "footer_visible", Truth)>>

\* The values asserted after call i, in order; for i past the last call the
\* entries of all_checks.  An entry "missing" is a KeyError.
test_verify_main_page_elements_checks(i, l) ==
    CASE i = 2 -> <<l.header_visible>>
      [] i = 3 -> <<Bool(missing_flat(l.tabs_results, Expected.tabs) = {})>>
      [] i = 4 -> <<l.logo_visible>>
      [] i = 5 -> <<Bool(missing_flat(l.header_elements_results,
                                      Expected.header_elements) = {})>>
      [] i = 6 -> <<l.content_area_visible>>
      [] i = 7 -> <<l.footer_visible>>
      [] i = 8 ->
           <<l.header_visible,
             l.logo_visible,
             Bool(\A tab \in Expected.tabs : Truthy(l.tabs_results[tab])),
             Bool(\A elem \in Expected.header_elements :
                     Truthy(l.header_elements_results[elem])),
             l.content_area_visible,
             l.footer_visible>>
      [] OTHER -> <<>>

test_verify_main_menu_functionality_steps ==
    <<TestCall("navigate_to_main_page", "", {"none"}),
      TestCall("verify_menu_button", "menu_button_results",
               Flat({"exists", "clickable"})),
      TestCall("open_menu", "", {"none"}),
      TestCall("verify_menu_panel_displayed", "menu_panel_visible", Truth),
      TestCall("verify_menu_options", "menu_options_results",
               Dict(Expected.menu_options, {"visible", "clickable"})),
      TestCall("verify_services_section", "services_results",
               [section_header : Field,
                service_links : Dict(Expected.service_links,
                                     {"visible", "clickable"})]),
      TestCall("close_menu", "", {"none"}),
      TestCall("verify_menu_panel_hidden", "menu_panel_hidden", Truth)>>

test_verify_main_menu_functionality_checks(i, l) ==
    CASE i = 2 -> <<l.menu_button_results["exists"],
                    l.menu_button_results["clickable"]>>
      [] i = 4 -> <<l.menu_panel_visible>>
      [] i = 5 ->
           <<Bool(missing(l.menu_options_results, Expected.menu_options,
                          "visible") = {}),
             Bool(not_clickable(l.menu_options_results,
                                Expected.menu_options) = {})>>
      [] i = 6 ->
           LET service_links_results == l.services_results.service_links IN
           <<l.services_results.section_header,
             Bool(missing(service_links_results, Expected.service_links,
                          "visible") = {}),
             Bool(not_clickable(service_links_results,
                                Expected.service_links) = {}),
             Bool(\A option \in Expected.menu_options :
                     Truthy(l.menu_options_results[option]["visible"]))>>
      [] i = 8 -> <<l.menu_panel_hidden>>
      [] i = 9 ->
           LET service_links_results == l.services_results.service_links IN
           <<l.menu_button_results["exists"],
             l.menu_button_results["clickable"],
             l.menu_panel_visible,
             Bool(\A option \in Expected.menu_options :
                     Truthy(l.menu_options_results[option]["visible"])),
             Bool(\A option \in Expected.menu_options :
                     Truthy(l.menu_options_results[option]["clickable"])),
             l.services_results.section_header,
             Bool(\A link \in Expected.service_links :
                     Truthy(service_links_results[link]["visible"])),
             Bool(\A link \in Expected.service_links :
                     Truthy(service_links_results[link]["clickable"])),
             l.menu_panel_hidden>>
      [] OTHER -> <<>>

test_verify_footer_functionality_steps ==
    <<TestCall("navigate_to_main_page", "", {"none"}),
      TestCall("scroll_to_footer", "", {"none"}),
      TestCall("verify_footer_menu_container", "footer_menu_visible", Truth),
      TestCall("verify_footer_titles", "titles_results", Flat(Expected.titles)),
      TestCall("verify_footer_options", "account_options_results",
               Dict(Expected.account_options, {"visible", "clickable"})),
      TestCall("verify_footer_options", "sections_options_results",
               Dict(Expected.sections_options, {"visible", "clickable"})),
      TestCall("verify_footer_options", "information_options_results",
               Dict(Expected.information_options, {"visible", "clickable"})),
      TestCall("verify_footer_options", "services_options_results",
               Dict(Expected.services_options, {"visible", "clickable"})),
      TestCall("verify_footer_section_main", "footer_section_visible", Truth),
      TestCall("close_popup_banner", "", {"none"}),
      TestCall("verify_copyright_text", "copyright_visible", Truth),
      TestCall("verify_footer_link", "support_link_results",
               Flat({"visible", "clickable"})),
      TestCall("verify_footer_link", "language_button_results",
               Flat({"visible", "clickable"})),
      TestCall("verify_social_icons_section", "social_icons_section_visible",
               Truth),
      TestCall("verify_social_icons", "social_icons_results",
               Dict(Expected.social_icons, {"visible", "clickable"}))>>

test_verify_footer_functionality_checks(i, l) ==
    LET Options(results, expected) ==
            <<Bool(missing(results, expected, "visible") = {}),
              Bool(not_clickable(results, expected) = {})>>
        Both(results, expected) ==
            <<Bool(\A x \in expected : Truthy(results[x]["visible"])),
              Bool(\A x \in expected : Truthy(results[x]["clickable"]))>>
    IN
    CASE i = 3 -> <<l.footer_menu_visible>>
      [] i = 4 -> <<Bool(missing_flat(l.titles_results, Expected.titles) = {})>>
      [] i = 5 -> Options(l.account_options_results, Expected.account_options)
      [] i = 6 -> Options(l.sections_options_results, Expected.sections_options)
      [] i = 7 -> Options(l.information_options_results,
                          Expected.information_options)
      [] i = 8 -> Options(l.services_options_results,
                          Expected.services_options)
      [] i = 9 -> <<l.footer_section_visible>>
      [] i = 11 -> <<l.copyright_visible>>
      [] i = 12 -> <<l.support_link_results["visible"],
                     l.support_link_results["clickable"]>>
      [] i = 13 -> <<l.language_button_results["visible"],
                     l.language_button_results["clickable"]>>
      [] i = 14 -> <<l.social_icons_section_visible>>
      [] i = 15 -> Options(l.social_icons_results, Expected.social_icons)
      [] i = 16 ->
           <<l.footer_menu_visible,
             Bool(\A title \in Expected.titles : Truthy(l.titles_results[title]))>>
           \o Both(l.account_options_results, Expected.account_options)
           \o Both(l.sections_options_results, Expected.sections_options)
           \o Both(l.information_options_results,
                   Expected.information_options)
           \o Both(l.services_options_results, Expected.services_options)
           \o <<l.footer_section_visible,
                l.copyright_visible,
                l.support_link_results["visible"],
                l.support_link_results["clickable"],
                l.language_button_results["visible"],
                l.language_button_results["clickable"],
                l.social_icons_section_visible>>
           \o Both(l.social_icons_results, Expected.social_icons)
      [] OTHER -> <<>>

test_verify_authorization_button_functionality_steps ==
    <<TestCall("navigate_to_main_page", "", {"none"}),
      TestCall("verify_login_button", "login_button_results",
               Flat({"exists", "visible", "clickable"})),
      TestCall("click_login_button", "", {"none"}),
      TestCall("verify_login_window_displayed", "login_window_visible", Truth),
      TestCall("verify_login_form_fields", "form_fields_results",
               {a @@ b : a \in Dict({"Vkhod", "Email_label", "Parol_label"},
                                    {"visible"}),
                         b \in Dict({"Email", "Parol"},
                                    {"visible", "enabled"})}),
      TestCall("verify_login_form_buttons", "form_buttons_results",
               Dict({"Voiti", "Zabyli parol?"}, {"visible", "clickable"})),
      TestCall("verify_captcha_iframe_form", "captcha_results",
               Dict({"captcha_container"}, {"visible"})),
      TestCall("verify_social_login_options", "social_login_results",
               {a @@ b : a \in Dict({"social_login_text",
                                     "social_buttons_block"}, {"visible"}),
                         b \in Dict(Expected.social_buttons,
                                    {"visible", "clickable",
                                     "icon_visible"})}),
      TestCall("verify_registration_link", "registration_results",
               Flat({"text_visible", "link_visible", "link_clickable"}))>>

test_verify_authorization_button_functionality_checks(i, l) ==
    LET Get(results, key) == Bool(Truthy(results[key]))
        GetIn(results, key, field) == Bool(Truthy(results[key][field]))
    IN
    CASE i = 2 -> <<l.login_button_results["exists"],
                    l.login_button_results["visible"],
                    l.login_button_results["clickable"]>>
      [] i = 4 -> <<l.login_window_visible>>
      [] i = 5 -> <<GetIn(l.form_fields_results, "Vkhod", "visible"),
                    GetIn(l.form_fields_results, "Email_label", "visible"),
                    GetIn(l.form_fields_results, "Parol_label", "visible"),
                    GetIn(l.form_fields_results, "Email", "visible"),
                    GetIn(l.form_fields_results, "Email", "enabled"),
                    GetIn(l.form_fields_results, "Parol", "visible"),
                    GetIn(l.form_fields_results, "Parol", "enabled")>>
      [] i = 6 -> <<GetIn(l.form_buttons_results, "Voiti", "visible"),
                    GetIn(l.form_buttons_results, "Voiti", "clickable"),
                    GetIn(l.form_buttons_results, "Zabyli parol?", "visible"),
                    GetIn(l.form_buttons_results, "Zabyli parol?",
                          "clickable")>>
      [] i = 7 -> <<GetIn(l.captcha_results, "captcha_container", "visible")>>
      [] i = 8 ->
           <<GetIn(l.social_login_results, "social_login_text", "visible"),
             GetIn(l.social_login_results, "social_buttons_block", "visible"),
             Bool(missing(l.social_login_results, Expected.social_buttons,
                          "visible") = {}),
             Bool(missing(l.social_login_results, Expected.social_buttons,
                          "icon_visible") = {})>>
      [] i = 9 -> <<Get(l.registration_results, "text_visible"),
                    Get(l.registration_results, "link_visible"),
                    Get(l.registration_results, "link_clickable")>>
      [] i = 10 ->
           <<l.login_button_results["exists"],
             l.login_button_results["visible"],
             l.login_button_results["clickable"],
             l.login_window_visible,
             GetIn(l.form_fields_results, "Vkhod", "visible"),
             GetIn(l.form_fields_results, "Email_label", "visible"),
             GetIn(l.form_fields_results, "Parol_label", "visible"),
             GetIn(l.form_fields_results, "Email", "visible"),
             GetIn(l.form_fields_results, "Email", "enabled"),
             GetIn(l.form_fields_results, "Parol", "visible"),
             GetIn(l.form_fields_results, "Parol", "enabled"),
             GetIn(l.form_buttons_results, "Voiti", "visible"),
             GetIn(l.form_buttons_results, "Voiti", "clickable"),
             GetIn(l.form_buttons_results, "Zabyli parol?", "visible"),
             GetIn(l.form_buttons_results, "Zabyli parol?", "clickable"),
             GetIn(l.social_login_results, "social_buttons_block", "visible"),
             GetIn(l.social_login_results, "social_login_text", "visible"),
             Bool(\A button \in Expected.social_buttons :
                     Truthy(l.social_login_results[button]["visible"])),
             Bool(\A button \in Expected.social_buttons :
                     Truthy(l.social_login_results[button]["icon_visible"])),
             Get(l.registration_results, "text_visible"),
             Get(l.registration_results, "link_visible"),
             Get(l.registration_results, "link_clickable")>>
      [] OTHER -> <<>>

Tests ==
    {"test_verify_main_page_elements", "test_verify_main_menu_functionality",
     "test_verify_footer_functionality",
     "test_verify_authorization_button_functionality"}

StepsOf(t) ==
    CASE t = "test_verify_main_page_elements" ->
           test_verify_main_page_elements_steps
      [] t = "test_verify_main_menu_functionality" ->
           test_verify_main_menu_functionality_steps
      [] t = "test_verify_footer_functionality" ->
           test_verify_footer_functionality_steps
      [] t = "test_verify_authorization_button_functionality" ->
           test_verify_authorization_button_functionality_steps
      [] OTHER -> <<>>

ChecksOf(t, i, l) ==
    CASE t = "test_verify_main_page_elements" ->
           test_verify_main_page_elements_checks(i, l)
      [] t = "test_verify_main_menu_functionality" ->
           test_verify_main_menu_functionality_checks(i, l)
      [] t = "test_verify_footer_functionality" ->
           test_verify_footer_functionality_checks(i, l)
      [] t = "test_verify_authorization_button_functionality" ->
           test_verify_authorization_button_functionality_checks(i, l)
      [] OTHER -> <<>>

\* The position of the first value that is not truthy, 0 when all are: the
\* assert (or the lookup) at which the test stops.
FirstFailing(checks) ==
    IF \A k \in DOMAIN checks : Truthy(checks[k]) THEN 0
    ELSE CHOOSE k \in DOMAIN checks :
            /\ ~Truthy(checks[k])
            /\ \A j \in 1..(k - 1) : Truthy(checks[j])

\* How a test that stopped at the value v ended: a KeyError is an error, a
\* falsy value under assert a failure.
Stopped(v) == IF v = "missing" THEN "error" ELSE "failed"

\* pytest enters test function t, or t goes on by one call and the asserts
\* that follow it, or, after the last call, builds all_checks and asserts
\* all(all_checks).  A call that raises ends the test.
Test(t) ==
    /\ UNCHANGED <<op, pc, status, ret, calls, attached, loc, scroll, prev,
                   worker, env_file, written>>
    /\ \/ /\ run.outcome # "running"
          /\ run' = [NoRun EXCEPT !.test = t, !.outcome = "running"]
       \/ /\ run.test = t
          /\ run.outcome = "running"
          /\ run.step < Len(StepsOf(t))
          /\ LET i == run.step + 1
                 s == StepsOf(t)[i]
             IN \/ run' = [run EXCEPT !.step = i, !.outcome = "error"]
                \/ \E v \in s.returns :
                      LET l == IF s.var = "" THEN run.locals
                               ELSE (s.var :> v) @@ run.locals
                          checks == ChecksOf(t, i, l)
                          k == FirstFailing(checks)
                      IN run' = IF k = 0
                                  THEN [run EXCEPT !.step = i, !.locals = l]
                                  ELSE [run EXCEPT !.step = i, !.locals = l,
                                                   !.outcome = Stopped(checks[k]),
                                                   !.assertion = k]
       \/ /\ run.test = t
          /\ run.outcome = "running"
          /\ run.step = Len(StepsOf(t))
          /\ LET i == run.step + 1
                 all_checks == ChecksOf(t, i, run.locals)
                 k == FirstFailing(all_checks)
             IN run' = [run EXCEPT
                          !.step = i,
                          !.locals = ("all_checks" :> all_checks) @@ run.locals,
                          !.outcome = IF k = 0 THEN "passed"
                                      ELSE Stopped(all_checks[k]),
                          !.assertion = IF k = 0 THEN 0 ELSE 1]

test_verify_main_page_elements == Test("test_verify_main_page_elements")
test_verify_main_menu_functionality ==
    Test("test_verify_main_menu_functionality")
test_verify_footer_functionality == Test("test_verify_footer_functionality")
test_verify_authorization_button_functionality ==
    Test("test_verify_authorization_button_functionality")

NextTests ==
    \/ test_verify_main_page_elements
    \/ test_verify_main_menu_functionality
    \/ test_verify_footer_functionality
    \/ test_verify_authorization_button_functionality

Next ==
    \/ CallStep
    \/ navigate
    \/ navigate_to_main_page
    \/ verify_all_content_tabs
    \/ verify_header_elements
    \/ verify_footer_section
    \/ verify_login_button
    \/ open_menu
    \/ close_menu
    \/ click_login_button
    \/ close_popup_banner
    \/ verify_menu_panel_hidden
    \/ get_captcha_checkbox
    \/ verify_captcha_checkbox_exists
    \/ get_captcha_title
    \/ verify_captcha_title_exists
    \/ verify_logo_link
    \/ verify_email_input_exists
    \/ verify_menu_panel_displayed
    \/ verify_footer_options
    \/ verify_footer_link
    \/ verify_login_window_displayed
    \/ verify_login_form_fields
    \/ verify_login_form_buttons
    \/ verify_captcha_iframe_form
    \/ verify_social_icons_section
    \/ verify_menu_button
    \/ verify_menu_options
    \/ verify_social_icons
    \/ verify_services_section
    \/ verify_registration_link
    \/ verify_social_login_options

Spec == Init /\ [][Next]_vars

\* Several worker processes of one pytest-xdist run, each stepping through
\* its own session.
SpecWorkers == Init /\ [][NextWorkers]_vars

\* One pytest session from pytest_configure to the closing of the browser.
SpecSession == Init /\ [][NextSession]_vars

\* The test functions, one after another, over every value the step methods
\* can hand back.
SpecTests == Init /\ [][NextTests]_vars

\* ========================================================================
\* Properties
\* ========================================================================

Last(sq) == sq[Len(sq)]
Done == status \in {"returned", "raised"}

\* The engine calls that locate, probe, wait or take a screenshot.
LocateWaitCalls ==
    {"count", "is_visible", "is_enabled", "wait_for_visible", "wait_for_hidden",
     "wait_for_selector", "wait_for_load_state", "screenshot"}

\* The waits and visibility probes that make up a wait chain.
ChainCalls == {"wait_for_visible", "wait_for_hidden", "is_visible",
               "wait_for_load_state"}

\* The calls of method m made so far, in call order.
CallsOf(m) == SelectSeq(calls, LAMBDA c : c.m = m)

\* ws attempts the conditions of `chain` in declaration order, and every
\* attempt but the last one made has timed out.
IsChainRun(ws, chain) ==
    /\ Len(ws) <= Len(chain)
    /\ \A i \in 1..Len(ws) :
          /\ ws[i].q = chain[i]
          /\ i < Len(ws) => ws[i].r = "raise"

\* ------------------------------------------------------------------------
\* C1: no verification method of the step classes lets a failure of a
\* locator query, a wait or a screenshot propagate to the calling test:
\* whenever such a method has ended by raising, the call that raised is not
\* one of those.
C1_VerificationNeverPropagates ==
    (/\ op \in {"verify_all_content_tabs", "verify_header_elements",
                "verify_footer_section", "verify_login_button",
                "verify_menu_panel_hidden"}
     /\ status = "raised")
    => Last(calls).m \notin LocateWaitCalls

\* ------------------------------------------------------------------------
\* C2: verify_all_content_tabs never raises, and when it returns the
\* mapping has the six tab keys, a tab being True exactly when its
\* count/visibility query found it visible.
TabSeenVisible(tab) ==
    \E i \in 1..Len(calls) :
        calls[i].q = tab /\ calls[i].m = "is_visible" /\ calls[i].r = "true"

C2_TabsIndependent ==
    op = "verify_all_content_tabs" =>
        /\ status # "raised"
        /\ status = "returned" =>
              /\ DOMAIN ret.value =
                    {"articles_tab", "posts_tab", "news_tab", "hubs_tab",
                     "authors_tab", "companies_tab"}
              /\ \A tab \in DOMAIN ret.value :
                    ret.value[tab] = TabSeenVisible(tab)

\* ------------------------------------------------------------------------
\* C3: in open_menu, click_login_button and navigate the conditions of the
\* wait chain are attempted in declaration order, a fallback only after all
\* conditions before it have timed out, and none after one has succeeded.
LoadStateWaits(phase) ==
    SelectSeq(calls, LAMBDA c : c.m = "wait_for_load_state" /\ c.n = phase)

C3_FallbackOrder ==
    /\ op = "open_menu" =>
          IsChainRun(CallsOf("wait_for_visible"),
                     <<"menu_panel", "menu_whats_new", "menu_backend",
                       "services_section_header">>)
    /\ op = "click_login_button" =>
          IsChainRun(CallsOf("wait_for_visible"),
                     <<"login_modal", "email_input", "password_input">>)
    /\ op = "navigate_to_main_page" =>
          \A phase \in {1, 2} :
              IsChainRun(LoadStateWaits(phase), <<"load", "networkidle">>)

\* open_menu returned after menu_panel timed out and menu_whats_new succeeded
C3_Witness ==
    /\ op = "open_menu"
    /\ status = "returned"
    /\ Len(CallsOf("wait_for_visible")) = 2
    /\ CallsOf("wait_for_visible")[1].r = "raise"
    /\ CallsOf("wait_for_visible")[2].q = "menu_whats_new"
    /\ CallsOf("wait_for_visible")[2].r = "ok"

\* ------------------------------------------------------------------------
\* C4: open_menu, close_menu, click_login_button and close_popup_banner do
\* not raise when the conditions of their wait chain time out: when one of
\* them has ended by raising, the call that raised is not a wait or a
\* visibility probe of the chain.
C4_ChainTimeoutNeverRaises ==
    (/\ op \in {"open_menu", "close_menu", "click_login_button",
                "close_popup_banner"}
     /\ status = "raised")
    => Last(calls).m \notin ChainCalls

\* ------------------------------------------------------------------------
\* C5: a fallback wait attempted after a timeout uses a timeout of at most
\* 60% of the timeout of the primary (first) wait of its chain.
ChainOf(phase) ==
    SelectSeq(calls, LAMBDA c : c.m \in ChainCalls /\ c.t > 0 /\ c.n = phase)

C5_FallbackTimeoutAtMost60Percent ==
    op \in {"navigate_to_main_page", "open_menu", "close_menu",
            "click_login_button", "verify_menu_panel_hidden"} =>
        \A phase \in 0..2 :
            \A j \in 2..Len(ChainOf(phase)) :
                ChainOf(phase)[j - 1].r = "raise" =>
                    10 * ChainOf(phase)[j].t <= 6 * ChainOf(phase)[1].t

\* ------------------------------------------------------------------------
\* C6: in navigate a timeout of the header-container wait is final: it is
\* the last engine call made, navigate_to_main_page ends by raising, no
\* load-state wait of that goto is attempted and no 'main_page_loaded'
\* screenshot is attached.
C6_HeaderWaitMustSucceed ==
    op = "navigate_to_main_page" =>
        \A i \in 1..Len(calls) :
            (calls[i].m = "wait_for_selector" /\ calls[i].r = "raise") =>
                /\ i = Len(calls)
                /\ status = "raised"
                /\ LoadStateWaits(calls[i].n) = <<>>
                /\ attached = <<>>

\* the header wait after the redirect goto timed out
C6_Witness ==
    /\ op = "navigate_to_main_page"
    /\ status = "raised"
    /\ Last(calls).m = "wait_for_selector"
    /\ Last(calls).n = 2

\* ------------------------------------------------------------------------
\* C7 as stated: once the header container has been observed visible (and
\* no goto has failed), navigate does not raise.
HeaderSeen ==
    \E i \in 1..Len(calls) :
        calls[i].m = "wait_for_selector" /\ calls[i].r = "ok"

NavigateRaised == status = "raised" /\ Last(calls).m # "screenshot"

C7_AsStated ==
    (/\ op = "navigate_to_main_page"
     /\ HeaderSeen
     /\ \A i \in 1..Len(calls) : calls[i].m = "goto" => calls[i].r = "ok")
    => ~NavigateRaised

\* C7 (amended): once the header container has been observed visible after
\* the goto last performed, no outcome of the load-state waits makes
\* navigate raise: navigate raises only out of a goto or a header wait; in
\* each phase the networkidle wait is attempted exactly when the 'load' wait
\* raised; and when both raised navigate goes on (to the URL check, or to
\* its return).
C7_LoadStateWaitsNeverRaise ==
    op = "navigate_to_main_page" =>
        /\ NavigateRaised => Last(calls).m \in {"goto", "wait_for_selector"}
        /\ \A i \in 1..Len(calls) :
              calls[i].m = "wait_for_load_state" =>
                 /\ calls[i].q = "networkidle" =>
                        /\ calls[i - 1].q = "load"
                        /\ calls[i - 1].r = "raise"
                        /\ calls[i - 1].n = calls[i].n
                 /\ (calls[i].q = "load" /\ calls[i].r = "raise") =>
                        IF i = Len(calls)
                          THEN pc = "networkidle" /\ status = "running"
                          ELSE calls[i + 1].q = "networkidle"
                 /\ (calls[i].q = "load" /\ calls[i].r = "ok" /\ i < Len(calls))
                        => calls[i + 1].q # "networkidle"
                 /\ (calls[i].q = "networkidle" /\ i = Len(calls)) =>
                        /\ status = "running"
                        /\ pc = IF calls[i].n = 1 THEN "url" ELSE "screenshot"

\* both load-state waits of the first goto raised and the call returned
C7_Witness ==
    /\ op = "navigate_to_main_page"
    /\ status = "returned"
    /\ Len(LoadStateWaits(1)) = 2
    /\ LoadStateWaits(1)[2].r = "raise"

\* ------------------------------------------------------------------------
\* C8: cross-frame resolution never raises.  verify_captcha_checkbox_exists
\* and verify_captcha_title_exists always end by returning a boolean;
\* get_captcha_checkbox hands back None or a locator whose count query
\* returned at least one match; the verification returns False when the
\* accessor handed back None and when the visibility query raised.
CountMethod(l) ==
    IF l.strategy = "direct" THEN "frame_locator.count"
    ELSE "content_frame.count"

CaptchaMethods ==
    {"verify_captcha_checkbox_exists", "verify_captcha_title_exists"}

C8_CrossFrameNeverRaises ==
    /\ op \in CaptchaMethods =>
          /\ status # "raised"
          /\ status = "returned" =>
                /\ ret.kind = "bool"
                /\ (Last(calls).m # "is_visible" \/ Last(calls).r # "true")
                      => ret.value = FALSE
    /\ op = "verify_captcha_checkbox_exists" =>
          /\ loc.checkbox # NoLocator =>
                \E i \in 1..Len(calls) :
                    /\ calls[i].q = loc.checkbox.selector
                    /\ calls[i].m = CountMethod(loc.checkbox)
                    /\ calls[i].r = "ok"
                    /\ calls[i].n > 0
          /\ (status = "returned" /\ loc.checkbox = NoLocator)
                => ret.value = FALSE

\* the iframe was there when counted and gone when waited for: None, False
C8_Witness ==
    /\ op = "verify_captcha_checkbox_exists"
    /\ status = "returned"
    /\ Len(calls) >= 2
    /\ Last(calls).m = "wait_for_visible"
    /\ Last(calls).r = "raise"
    /\ calls[Len(calls) - 1].m = "count"
    /\ calls[Len(calls) - 1].n > 0
    /\ loc.checkbox = NoLocator
    /\ ret.value = FALSE

\* ------------------------------------------------------------------------
\* C9: in the captcha accessors the direct frame-scoped query
\* (page.frame_locator) is attempted first: the content-frame approach is
\* never begun before the direct strategy has been tried, and it is begun
\* whenever the direct strategy threw.
ContentFrameBegun(i) == calls[i].q = "captcha_iframe"
DirectTried(i) == calls[i].m = "frame_locator"

C9_DirectStrategyFirst ==
    op \in CaptchaMethods =>
        /\ \A j \in 1..Len(calls) :
              ContentFrameBegun(j) => \E i \in 1..(j - 1) : DirectTried(i)
        /\ \A i \in 1..Len(calls) :
              (DirectTried(i) /\ calls[i].r = "raise") =>
                  IF i = Len(calls) THEN pc = "iframe_count"
                  ELSE ContentFrameBegun(i + 1)

\* ------------------------------------------------------------------------
\* C10: get_captcha_checkbox queries the selectors of each list in
\* declaration order; a selector with zero matches or a raising query is
\* skipped; the first query that reports a match count > 0 ends the search
\* (no selector is queried after it) and its locator is the one returned.
SelectorQueries(m) == SelectSeq(calls, LAMBDA c : c.m = m)
AllSelectorQueries ==
    SelectSeq(calls, LAMBDA c : c.m \in {"frame_locator.count",
                                         "content_frame.count"})
InDeclarationOrder(qs, declared) ==
    /\ Len(qs) <= Len(declared)
    /\ \A i \in 1..Len(qs) : qs[i].q = declared[i]

C10_FirstMatchingSelectorWins ==
    op = "verify_captcha_checkbox_exists" =>
        /\ InDeclarationOrder(SelectorQueries("frame_locator.count"),
              <<"div.CheckboxCaptcha-Checkbox", "div[class*=CheckboxCaptcha]",
                "div[class*=checkbox]", "span[role=checkbox]",
                "#checkbox-captcha", ".checkbox-captcha">>)
        /\ InDeclarationOrder(SelectorQueries("content_frame.count"),
              <<"div.CheckboxCaptcha-Checkbox", "div[class*=CheckboxCaptcha]",
                "div[class*=checkbox]", "span[role=checkbox]">>)
        /\ \A i \in 1..Len(AllSelectorQueries) :
              LET c == AllSelectorQueries[i] IN
              IF c.r = "ok" /\ c.n > 0
                THEN /\ i = Len(AllSelectorQueries)
                     /\ loc.checkbox.selector = c.q
                     /\ CountMethod(loc.checkbox) = c.m
                ELSE i = Len(AllSelectorQueries) => loc.checkbox = NoLocator
        /\ loc.checkbox # NoLocator =>
              /\ AllSelectorQueries # <<>>
              /\ Last(AllSelectorQueries).n > 0

\* only the third selector of the direct list matches, and it is returned
C10_Witness ==
    /\ op = "verify_captcha_checkbox_exists"
    /\ Len(AllSelectorQueries) = 3
    /\ AllSelectorQueries[1].n = 0
    /\ AllSelectorQueries[2].n = 0
    /\ AllSelectorQueries[3].n > 0
    /\ loc.checkbox = Locator("direct", "div[class*=checkbox]")

\* ------------------------------------------------------------------------
\* C11
\* ------------------------------------------------------------------------

\* The chain behind the locator the running method queries.
ChainOfOp ==
    IF op = "verify_logo_link" THEN logo_link ELSE email_input

Resolved == op \in {"verify_logo_link", "verify_email_input_exists"} /\ Done

\* C11: for a locator built as A.or_(B)[.or_(C)].first, whenever the first
\* strategy A matches at least one node of the page, the element the locator
\* resolves to is a match of A, wherever the matches of B and C lie in
\* document order.
C11_FirstStrategyWins ==
    Resolved =>
        ((\E i \in DOMAIN loc.dom : ChainOfOp[1] \in loc.dom[i]) =>
            /\ loc.resolved # 0
            /\ ChainOfOp[1] \in loc.dom[loc.resolved])

\* ------------------------------------------------------------------------
\* C12
\* ------------------------------------------------------------------------

\* The verifications that wrap their queries in try/except.
CatchingVerifications ==
    {"verify_menu_panel_hidden", "verify_menu_panel_displayed",
     "verify_email_input_exists", "verify_captcha_checkbox_exists",
     "verify_captcha_title_exists", "verify_login_button"}

QueryRaised ==
    /\ calls # <<>>
    /\ Last(calls).r = "raise"
    /\ Last(calls).m \in {"is_visible", "is_enabled", "count"}

\* C12: a verification method that catches exceptions reports a negative
\* result when its query raises: having returned right after a visibility,
\* enabled or count query raised, its boolean is False and every field of
\* its mapping is False, never True.
C12_RaisingQueryGivesFalse ==
    (op \in CatchingVerifications /\ status = "returned" /\ QueryRaised) =>
        /\ ret.kind = "bool" => ret.value = FALSE
        /\ ret.kind = "login_button" =>
              ~ret.exists /\ ~ret.visible /\ ~ret.clickable

\* ------------------------------------------------------------------------
\* C13
\* ------------------------------------------------------------------------

MalformedQuery ==
    \/ op = "verify_footer_options" /\ loc.section_name \notin DOMAIN section_map
    \/ op = "verify_footer_link" /\ loc.link_name \notin DOMAIN link_map

\* C13: a malformed query is a hard failure: verify_footer_options called
\* with a section_name outside the section map, and verify_footer_link
\* called with a link_name outside the link map, raise to the caller
\* instead of returning a result value.
C13_MalformedQueryRaises ==
    (Done /\ MalformedQuery) => status = "raised"

\* ------------------------------------------------------------------------
\* C14
\* ------------------------------------------------------------------------

CrossFrameVerifications ==
    {"verify_captcha_checkbox_exists", "verify_captcha_title_exists"}

\* The iframe could not be entered: it never became visible (detached),
\* content_frame() gave nothing or raised, or the frame never loaded.
FrameUnreachable ==
    \E i \in DOMAIN calls :
        \/ /\ calls[i].q = "captcha_iframe"
           /\ calls[i].m \in {"wait_for_visible", "content_frame"}
           /\ calls[i].r \in {"raise", "none"}
        \/ calls[i].q = "frame" /\ calls[i].r = "raise"

\* The frame was entered and no selector matched anything in it.
NotFound ==
    /\ loc.checkbox = NoLocator
    /\ \E i \in DOMAIN calls : calls[i].q = "frame" /\ calls[i].r = "ok"

\* What the caller and the report see of a finished verification.
Observable == <<ret, attached>>
\* ... and what they see in the NotFound case: False and no evidence.
NotFoundObservable == <<BoolRet(FALSE), <<>>>>

\* C14: the result of a cross-frame verification tells an unreachable frame
\* apart from an element that was not found: what the caller and the report
\* observe in the FrameUnreachable case differs from what they observe in
\* the NotFound case.
C14_UnreachableDistinctFromNotFound ==
    (op \in CrossFrameVerifications /\ status = "returned") =>
        /\ (op = "verify_captcha_checkbox_exists" /\ NotFound) =>
              Observable = NotFoundObservable
        /\ FrameUnreachable => Observable # NotFoundObservable

\* ------------------------------------------------------------------------
\* C15
\* ------------------------------------------------------------------------

\* The condition a repeated verification checks was satisfied during the
\* call that made the queries cs: the footer (the menu panel) was reported
\* visible.
Satisfied(cs) ==
    LET target == IF op = "verify_footer_section"
                    THEN "footer_section" ELSE "menu_panel" IN
    \E i \in DOMAIN cs :
        cs[i].q = target /\ cs[i].m = "is_visible" /\ cs[i].r = "true"

Names(evidence) == {evidence[i].name : i \in DOMAIN evidence}

\* The same verification has been called twice in a row and the condition
\* was satisfied during each call.
TwiceSatisfied ==
    /\ op \in Repeated
    /\ prev.status # "none"
    /\ Done
    /\ Satisfied(prev.calls)
    /\ Satisfied(calls)

\* C15: verification is idempotent on an unchanged page: when the same
\* verification is called twice in a row while its condition stays
\* satisfied, both calls return True, and the second call leaves the scroll
\* position of the page and the set of evidence names attached as the first
\* call left them.
C15_VerificationIdempotent ==
    TwiceSatisfied =>
        /\ prev.status = "returned" /\ prev.ret = BoolRet(TRUE)
        /\ status = "returned" /\ ret = BoolRet(TRUE)
        /\ Names(attached) = Names(prev.attached)
        /\ scroll = prev.scroll

\* ------------------------------------------------------------------------
\* C16
\* ------------------------------------------------------------------------

EvidenceMethods ==
    {"verify_login_window_displayed", "verify_login_form_fields",
     "verify_login_form_buttons", "verify_captcha_iframe_form"}

ElementsOfOp ==
    CASE op = "verify_login_window_displayed" -> LoginWindowElements
      [] op = "verify_login_form_fields" -> LoginFormFields
      [] op = "verify_login_form_buttons" -> LoginFormButtons
      [] op = "verify_captcha_iframe_form" -> CaptchaFormElements
      [] OTHER -> <<>>

\* The elements of the running method that evidence is attached for.
EvidencedElements ==
    {ElementsOfOp[k] : k \in {j \in DOMAIN ElementsOfOp :
                                 ElementsOfOp[j].name # ""}}

Checked(e) ==
    \E i \in DOMAIN calls : calls[i].q = e.q /\ calls[i].m = "is_visible"
FoundVisible(e) ==
    \E i \in DOMAIN calls :
        calls[i].q = e.q /\ calls[i].m = "is_visible" /\ calls[i].r = "true"

CountOf(name) == Cardinality({i \in DOMAIN attached : attached[i].name = name})

\* C16: for every element these four methods check and attach evidence
\* for, a call attaches exactly one piece of evidence: the screenshot named
\* X when the element was found visible, or the text named X_not_visible
\* when it was not; the two names differ, no other element uses them, and
\* they are never both attached in one call.
C16_OneEvidencePerElement ==
    (op \in EvidenceMethods /\ Done) =>
        \A e \in EvidencedElements :
            /\ e.name # e.missing
            /\ \A f \in EvidencedElements \ {e} :
                  {e.name, e.missing} \cap {f.name, f.missing} = {}
            /\ Checked(e) =>
                  /\ CountOf(e.name) = (IF FoundVisible(e) THEN 1 ELSE 0)
                  /\ CountOf(e.missing) = (IF FoundVisible(e) THEN 0 ELSE 1)

\* ------------------------------------------------------------------------
\* C17
\* ------------------------------------------------------------------------

Configured(w) == worker[w].pc \notin {"configure", "open", "write", "close"}

\* C17: when several worker processes run concurrently no mutable resource
\* is written by more than one of them, and no write is lost or torn: the
\* file a worker has written and closed holds what that worker wrote.
C17_NoSharedMutableResource ==
    /\ \A x \in written : \A y \in written : x.res = y.res => x.by = y.by
    /\ \A w \in Workers :
          Configured(w) =>
              env_file = [i \in 1..Len(EnvParts) |->
                             [part |-> EnvParts[i], by |-> w]]

\* ------------------------------------------------------------------------
\* C18
\* ------------------------------------------------------------------------

\* Some query of the call found the menu panel hidden: is_visible answered
\* False, or the wait for state 'hidden' completed.
PanelSeenHidden ==
    \E i \in DOMAIN calls :
        /\ calls[i].q = "menu_panel"
        /\ \/ calls[i].m = "is_visible" /\ calls[i].r = "false"
           \/ calls[i].m = "wait_for_hidden" /\ calls[i].r = "ok"

\* C18: verify_menu_panel_hidden returns True only if the menu panel is
\* hidden: when every query on the panel found it visible or raised, so that
\* the panel stayed visible or its visibility could not be determined, the
\* method returns False.
C18_HiddenOnlyWhenSeenHidden ==
    (op = "verify_menu_panel_hidden" /\ status = "returned") =>
        (ret.value = TRUE => PanelSeenHidden)

\* ------------------------------------------------------------------------
\* C19
\* ------------------------------------------------------------------------

PanelSeenVisible ==
    \E i \in DOMAIN calls :
        /\ calls[i].q = "menu_panel"
        /\ calls[i].m = "is_visible"
        /\ calls[i].r = "true"

\* C19: verify_menu_panel_displayed returns True if and only if the menu
\* panel (.navigation-wrapper) is visible; it returns False whenever the
\* panel is not visible, whatever other elements are visible.
C19_DisplayedIffPanelVisible ==
    (op = "verify_menu_panel_displayed" /\ status = "returned") =>
        (ret.value = TRUE <=> PanelSeenVisible)

\* ------------------------------------------------------------------------
\* C20
\* ------------------------------------------------------------------------

Answered(m, r, n) ==
    \E i \in DOMAIN calls :
        /\ calls[i].q = "login_button"
        /\ calls[i].m = m
        /\ calls[i].r = r
        /\ calls[i].n = n

\* The header holds exactly one 'Войти' button, visible and enabled.
OneVisibleEnabledButton ==
    /\ Answered("count", "ok", 1)
    /\ Answered("is_visible", "true", 0)
    /\ Answered("is_enabled", "true", 0)

\* C20: when the header holds exactly one button named 'Войти' and it is
\* visible and enabled, verify_login_button returns
\* {exists: True, visible: True, clickable: True} without raising.
C20_LoginButtonAllTrue ==
    (op = "verify_login_button" /\ Done /\ OneVisibleEnabledButton) =>
        /\ status = "returned"
        /\ ret = LoginButtonRet([exists |-> TRUE, visible |-> TRUE,
                                 clickable |-> TRUE])

\* ------------------------------------------------------------------------
\* C21
\* ------------------------------------------------------------------------

\* The nodes of a page that some strategy of a chain matches.
MatchesOf(dom, chain) == {i \in DOMAIN dom : dom[i] \cap Range(chain) # {}}

\* The same verification has been called twice in a row and both calls are
\* over.
CalledTwice == op \in Repeated /\ prev.status # "none" /\ Done

\* What a call observed of the page: the engine's answers, and for
\* verify_logo_link the nodes of the page as well.
SamePageAsBefore ==
    /\ prev.calls = calls
    /\ op = "verify_logo_link" => prev.loc.dom = loc.dom

Waits ==
    SelectSeq(calls, LAMBDA c : c.m \in ChainCalls \cup {"wait_for_selector"})

\* The sum of the timeouts of a sequence of waits, in ms: the longest the
\* engine can have kept the method waiting in them.
RECURSIVE TimeoutSum(_)
TimeoutSum(ws) ==
    IF ws = <<>> THEN 0 ELSE Head(ws).t + TimeoutSum(Tail(ws))

\* No wait is made a second time: no two waits of one call have the same
\* target, state, timeout and goto.
NoRetry(ws) ==
    \A i, j \in DOMAIN ws : ws[i] = [ws[j] EXCEPT !.r = ws[i].r] => i = j

\* C22: the wait-bearing operations make a bounded number of waits, each
\* wait_for with a finite timeout of its own, and repeat none: navigate at most 2 gotos and 6
\* waits, open_menu at most 4 waits, click_login_button at most 3, close_menu
\* at most 4 waits or visibility checks within 5000+2000+3000+2000 ms, and
\* the timeouts of the waits attempted add up to no more than the budget of
\* the chain.
C22_BoundedWaits ==
    /\ \A i \in DOMAIN Waits :
          /\ Waits[i].m # "is_visible" => Waits[i].t > 0
          /\ Waits[i].t <= HeaderTimeout
    /\ op = "navigate_to_main_page" =>
          /\ Len(CallsOf("goto")) <= 2
          /\ Len(Waits) <= 6
          /\ NoRetry(Waits)
          /\ TimeoutSum(Waits)
                <= 2 * (HeaderTimeout + LoadTimeout + NetworkIdleTimeout)
    /\ op = "open_menu" =>
          /\ Len(Waits) <= 4
          /\ NoRetry(Waits)
          /\ TimeoutSum(Waits) <= 4 * MenuWaitTimeout
    /\ op = "click_login_button" =>
          /\ Len(Waits) <= 3
          /\ NoRetry(Waits)
          /\ TimeoutSum(Waits) <= 3 * LoginWaitTimeout
    /\ op = "close_menu" =>
          /\ Len(Waits) <= 4
          /\ NoRetry(Waits)
          /\ TimeoutSum(Waits)
                <= CloseHiddenTimeout + CloseVisibleProbeTimeout
                   + CloseHiddenRetryTimeout + CloseButtonTimeout

\* navigate returned after the feed redirect with every load-state wait of
\* both gotos timed out: 2 gotos and 6 waits, the whole budget attempted.
C22_Witness ==
    /\ op = "navigate_to_main_page"
    /\ status = "returned"
    /\ Len(CallsOf("goto")) = 2
    /\ Len(Waits) = 6
    /\ TimeoutSum(Waits)
          = 2 * (HeaderTimeout + LoadTimeout + NetworkIdleTimeout)

\* ------------------------------------------------------------------------
\* C23
\* ------------------------------------------------------------------------

\* The positions in `calls` of the calls of method m.
PositionsOf(m) == {i \in DOMAIN calls : calls[i].m = m}

\* navigate has returned to navigate_to_main_page.
NavigateReturned ==
    /\ op = "navigate_to_main_page"
    /\ \/ status = "running" /\ pc = "screenshot"
       \/ Done /\ Last(calls).m = "screenshot"

\* C23: navigate follows the feed redirect at most once: it makes a second
\* goto exactly when the URL read after the first load contains /ru/feed,
\* reads the URL once and never after the second goto, and has returned
\* only if the header container was seen visible after the goto it made
\* last.
C23_FeedRedirectAtMostOnce ==
    op = "navigate_to_main_page" =>
        LET gotos == PositionsOf("goto")
            urls == PositionsOf("url")
            feed == \E i \in urls : calls[i].r = "feed"
        IN
        /\ Cardinality(gotos) <= 2
        /\ Cardinality(urls) <= 1
        /\ Cardinality(gotos) = 2 => feed
        /\ feed => \/ Cardinality(gotos) = 2
                   \/ status = "running" /\ pc = "goto"
        /\ \A u \in urls : \A g \in gotos : g > u => calls[u].r = "feed"
        /\ \A u \in urls : Cardinality({g \in gotos : g < u}) = 1
        /\ NavigateReturned =>
              \E h \in PositionsOf("wait_for_selector") :
                  /\ calls[h].r = "ok"
                  /\ \A g \in gotos : g < h

\* navigate returned after the redirect: two gotos, the URL read between
\* them, the header seen after the second.
C23_Witness ==
    /\ NavigateReturned
    /\ Cardinality(PositionsOf("goto")) = 2
    /\ Cardinality(PositionsOf("url")) = 1
    /\ \E h \in PositionsOf("wait_for_selector") :
          calls[h].r = "ok" /\ calls[h].n = 2

\* ------------------------------------------------------------------------
\* C24
\* ------------------------------------------------------------------------

\* One of login_modal, email_input, password_input was seen visible during
\* the call.
LoginModalSeen ==
    \E i \in DOMAIN calls :
        /\ calls[i].q \in {"login_modal", "email_input", "password_input"}
        /\ calls[i].m = "wait_for_visible"
        /\ calls[i].r = "ok"

\* C24: whenever click_login_button returns normally, one of login_modal,
\* email_input, password_input was seen visible during the call, and the
\* 'login_modal_opened' screenshot is attached only after such an
\* observation.
C24_ReturnsOnlyAfterModalSeen ==
    op = "click_login_button" =>
        /\ status = "returned" => LoginModalSeen
        /\ "login_modal_opened" \in Names(attached) => LoginModalSeen

\* ------------------------------------------------------------------------
\* C25
\* ------------------------------------------------------------------------

\* The call at position i is the visibility check of q and answered True.
SeenVisibleAt(i, q) ==
    calls[i].q = q /\ calls[i].m = "is_visible" /\ calls[i].r = "true"

CloseButtonClicked == \E i \in DOMAIN calls : calls[i].m = "click"

\* The first check of the banner did not find it visible.
BannerNotVisible ==
    /\ calls # <<>>
    /\ calls[1].q = "div.fixed-banner-wrapper"
    /\ calls[1].m = "is_visible"
    /\ calls[1].r # "true"

\* C25: close_popup_banner never raises, clicks the close button only when
\* the banner and the close button were both seen visible, attaches
\* 'banner_closed' only when the close button was clicked, and attaches
\* 'banner_not_present' whenever the banner was not visible.
C25_BannerEvidenceMatchesOutcome ==
    op = "close_popup_banner" =>
        /\ status # "raised"
        /\ \A i \in DOMAIN calls :
              calls[i].m = "click" =>
                  /\ \E j \in 1..(i - 1) : SeenVisibleAt(j, "div.fixed-banner-wrapper")
                  /\ \E j \in 1..(i - 1) : SeenVisibleAt(j, "button.close-button")
        /\ "banner_closed" \in Names(attached) => CloseButtonClicked
        /\ (Done /\ BannerNotVisible) => "banner_not_present" \in Names(attached)

\* ------------------------------------------------------------------------
\* C26
\* ------------------------------------------------------------------------

\* The icon with locator q was found (count > 0) and then seen visible.
IconFoundVisible(q) ==
    \E i \in DOMAIN calls :
        /\ calls[i].q = q /\ calls[i].m = "count"
        /\ calls[i].r = "ok" /\ calls[i].n > 0
        /\ i < Len(calls)
        /\ calls[i + 1].q = q /\ calls[i + 1].m = "is_visible"
        /\ calls[i + 1].r = "true"

\* The position in SocialIcons of the icon the call at i is made on, 0 for
\* a call on the section.
IconAt(i) ==
    IF \E k \in DOMAIN SocialIcons : SocialIcons[k] = calls[i].q
      THEN CHOOSE k \in DOMAIN SocialIcons : SocialIcons[k] = calls[i].q
      ELSE 0

\* C26: verify_social_icons_section returns True exactly when one of the
\* four footer social icons was found with count > 0 and seen visible; the
\* icons are examined in the order VK, Telegram, Youtube, Dzen; no icon is
\* examined after the first visible one; an exception while examining an
\* icon moves on to the next icon; and the method never raises, even when
\* the screenshot of the section fails.
C26_SocialIconsSection ==
    op = "verify_social_icons_section" =>
        LET examined == CallsOf("count") IN
        /\ status # "raised"
        /\ status = "returned" =>
              (ret.value <=> \E k \in DOMAIN SocialIcons :
                                 IconFoundVisible(SocialIcons[k]))
        /\ Len(examined) <= Len(SocialIcons)
        /\ \A k \in DOMAIN examined : examined[k].q = SocialIcons[k]
        /\ \A i, j \in DOMAIN calls :
              (IconAt(i) # 0 /\ calls[i].m = "is_visible"
                 /\ calls[i].r = "true" /\ j > i) => IconAt(j) = 0
        /\ \A i \in DOMAIN calls :
              (IconAt(i) # 0 /\ calls[i].r = "raise") =>
                  \/ i < Len(calls) /\ calls[i + 1].m = "count"
                        /\ IconAt(i + 1) = IconAt(i) + 1
                  \/ i = Len(calls) /\ status = "running" /\ pc = "count"
                        /\ loc.i = IconAt(i) + 1
                  \/ i = Len(calls) /\ IconAt(i) = Len(SocialIcons)
                        /\ status = "returned"

\* VK raised on count, Telegram was found and seen visible, the screenshot
\* of the section failed, and the method returned True.
C26_Witness ==
    /\ op = "verify_social_icons_section"
    /\ status = "returned" /\ ret = BoolRet(TRUE)
    /\ calls[1].r = "raise"
    /\ IconFoundVisible(SocialIcons[2])
    /\ Last(calls).m = "screenshot" /\ Last(calls).r = "raise"

\* ------------------------------------------------------------------------
\* C27
\* ------------------------------------------------------------------------

\* The positions in the log of worker w where fixture event e happened
\* (to object id).
Happened(w, e) == {i \in DOMAIN worker[w].log : worker[w].log[i].e = e}
HappenedTo(w, e, id) == {i \in Happened(w, e) : worker[w].log[i].id = id}

\* Object id, made by event `new` and closed by event `close`, is open just
\* before position i of the log of worker w.
OpenAt(w, new, close, id, i) ==
    /\ \E j \in HappenedTo(w, new, id) : j < i
    /\ \A j \in HappenedTo(w, close, id) : j >= i

DependentResultMethods ==
    {"verify_menu_button", "verify_menu_options", "verify_services_section",
     "verify_footer_options", "verify_footer_link", "verify_social_icons",
     "verify_login_button", "verify_login_form_fields",
     "verify_login_form_buttons", "verify_registration_link",
     "verify_social_login_options"}

\* The per-element entries collected so far by a method that keeps a
\* `results` mapping (for a method that has returned: those it returned).
Entries ==
    IF op \in {"verify_menu_options", "verify_services_section",
               "verify_footer_options", "verify_social_icons",
               "verify_login_form_fields", "verify_login_form_buttons",
               "verify_social_login_options"}
      THEN {loc.results[k] : k \in DOMAIN loc.results}
      ELSE {}

Has(e, field) == field \in DOMAIN e /\ e[field]

MenuSignals ==
    {"menu_panel", "menu_whats_new", "menu_backend", "services_section_header"}

\* One of the four signals was seen visible after the click on the menu
\* button.
MenuSignalSeen ==
    \E i, j \in DOMAIN calls :
        /\ j < i
        /\ calls[j].q = "menu_button" /\ calls[j].m = "click"
        /\ calls[j].r = "ok"
        /\ calls[i].q \in MenuSignals /\ calls[i].m = "wait_for_visible"
        /\ calls[i].r = "ok"

\* Each of the four signals was waited for and none became visible.
NoMenuSignal ==
    \A q \in MenuSignals :
        \E i \in DOMAIN calls :
            calls[i].q = q /\ calls[i].m = "wait_for_visible"
            /\ calls[i].r = "raise"

\* C29: open_menu returns normally only if one of menu_panel,
\* menu_whats_new, menu_backend, services_section_header was seen visible
\* after the click on the menu button, and attaches 'menu_opened' only then;
\* when none of the four becomes visible it raises and attaches nothing.
C29_OpenMenuRaisesWhenNothingSeen ==
    op = "open_menu" =>
        /\ status = "returned" => MenuSignalSeen
        /\ "menu_opened" \in Names(attached) => MenuSignalSeen
        /\ NoMenuSignal => status = "raised" /\ attached = <<>>

\* Three signals timed out, the services header was seen, and open_menu
\* returned with its screenshot.
C29_Witness ==
    /\ op = "open_menu"
    /\ status = "returned"
    /\ Len(CallsOf("wait_for_visible")) = 4
    /\ MenuSignalSeen
    /\ Names(attached) = {"menu_opened"}


\* ------------------------------------------------------------------------
\* C30
\* ------------------------------------------------------------------------

AtFinalCheck ==
    /\ run.test \in Tests
    /\ run.outcome = "running"
    /\ run.step = Len(StepsOf(run.test))

FinalCheckDone ==
    /\ run.test \in Tests
    /\ run.step = Len(StepsOf(run.test)) + 1

\* C30: in each of the four tests the final all_checks assertion follows
\* from the assertions before it.  Whenever a test has passed every earlier
\* assertion and stands before its final check, every entry of all_checks
\* (built from the values the step methods handed back, whatever they were)
\* is truthy; and once the final check has been carried out it has passed,
\* with every entry of the list it asserted truthy: the final assertion is
\* never the one that fails the test.
C30_FinalCheckImplied ==
    /\ AtFinalCheck =>
          LET all_checks == ChecksOf(run.test, run.step + 1, run.locals)
          IN \A k \in DOMAIN all_checks : Truthy(all_checks[k])
    /\ FinalCheckDone =>
          /\ run.outcome = "passed"
          /\ \A k \in DOMAIN run.locals.all_checks :
                Truthy(run.locals.all_checks[k])

\* The footer test has gone through its fifteen calls, passed every
\* assertion on the way and carried out the final check.
C30_Witness ==
    /\ run.test = "test_verify_footer_functionality"
    /\ FinalCheckDone
    /\ run.outcome = "passed"
    /\ Len(run.locals.all_checks) > 0

====
